---- MODULE Spec2Model ----
(***************************************************************************)
(* The containers of the repository as state machines.                     *)
(*                                                                         *)
(* Spec: the AVL tree of src/avl.rs, one Avl<K> value, the calls a client  *)
(* makes on it (insert, remove, contains, iter, into_iter) and the two     *)
(* iterators stepped one next() at a time.                                 *)
(* SpecHeap: a Heap (src/heap.rs) or a RecursiveHeap                       *)
(* (src/recursive_heap.rs) under insert/push, peek and pop, or the         *)
(* function binary_path_to called alone.                                   *)
(* SpecVec and SpecImplTreap: an ImplTreap (src/impl_treap.rs) under       *)
(* push, remove, pop and iter, and with insert at any index.               *)
(* SpecTreap: two runs of a Treap (src/treap.rs) given the same calls and  *)
(* drawing their priorities independently.                                 *)
(* SpecBst: a Bst (src/bst.rs) and an Avl given the same calls.            *)
(*                                                                         *)
(* An Anchor<K> = Option<Box<AvlNode<K>>> is a sequence of length 0 (None) *)
(* or 1 (Some(node)); a node is a record with the fields of AvlNode.       *)
(* children is 1-based here: children[1] is the source's children[0].     *)
(* A Rust panic (unwrap on None, index out of bounds, failed assertion,    *)
(* unreachable!()) is carried as the field panic of an operator's result.  *)
(***************************************************************************)
EXTENDS Integers, Sequences, FiniteSets, TLC

\* Keys are 1..MaxKey (K = an integer type, ordered by <).
MaxKey == 9
\* How many more next() calls are made on an iterator after its first None.
MaxExtraNext == 2

Keys == 1..MaxKey

VARIABLES
    root,       \* Avl.root: Anchor<K>
    ref,        \* the reference set: the calls replayed on a mathematical set
    last,       \* the last call made on the tree and what it returned
    trace,      \* the rotate and rebalance calls the last call made
    calls,      \* the same calls with the slot before and after each
    panicked,   \* a panic was raised by the last call
    mode,       \* "idle", "iter" (an IterRef borrows the tree) or "into_iter"
    it_stack,   \* IterRef.stack
    it_rets,    \* what the IterRef's next() calls returned so far
    ci_stack,   \* Iter.stack
    ci_rets,    \* what the Iter's next() calls returned so far
    consumed,   \* the tree that was moved into the Iter
    hp_kind,    \* what the client uses: "Heap", "RecursiveHeap", or
                \* "binary_path_to" (the function alone)
    heap,       \* the Heap or RecursiveHeap: its fields root and size
    hp_ref,     \* the keys inserted and not yet popped, greatest first
    hp_last,    \* the last call made on the heap and what it returned
    hp_panicked,\* a panic was raised by the last call on the heap
    bp_index,   \* the argument of binary_path_to
    bp_ret,     \* what binary_path_to returned, None before the call
    itreap,     \* the ImplTreap: its fields root and size
    vec_ref,    \* the reference list: the calls replayed on a sequence
    vec_last,   \* the last call made on the ImplTreap and what it returned
    vec_panicked, \* a panic was raised by the last call on the ImplTreap
    vec_build,  \* "debug" (overflow checks on) or "release" (wrapping)
    treap,      \* Treap.root in the first run
    treap2,     \* Treap.root in the second run
    tr_ref,     \* the reference set of the Treap runs
    tr_last,    \* the last call made on the Treaps and what they returned
    tr_panicked,\* a panic was raised by the last call in one of the runs
    bst,        \* Bst.root
    bst_last,   \* the last call made on the Bst and the Avl
    bst_panicked \* a panic was raised by the last call on the Bst

avl_vars == <<root, ref, last, trace, calls, panicked, mode, it_stack, it_rets,
              ci_stack, ci_rets, consumed>>
heap_vars == <<hp_kind, heap, hp_ref, hp_last, hp_panicked, bp_index, bp_ret>>
vec_vars == <<itreap, vec_ref, vec_last, vec_panicked, vec_build>>
treap_vars == <<treap, treap2, tr_ref, tr_last, tr_panicked>>
bst_vars == <<bst, bst_last, bst_panicked>>

vars == <<avl_vars, heap_vars, vec_vars, treap_vars, bst_vars>>

----------------------------------------------------------------------------
\* Option and NodeDirection

None == <<>>
Some(x) == <<x>>

\* let name = value in body: Bind(value, LAMBDA name : body)
Bind(value, Body(_)) == Body(value)

NodeDirection == {"Left", "Right", "None"}

\* `dir as usize`, plus one: Left = 0, Right = 1, None = 2 in the source.
Idx(dir) == CASE dir = "Left" -> 1 [] dir = "Right" -> 2 [] OTHER -> 3

Not(dir) == CASE dir = "Left" -> "Right" [] dir = "Right" -> "Left" [] OTHER -> "None"

AvlNode_new(key) == [key |-> key, longer_side |-> "None", children |-> <<None, None>>]

\* AvlNode_dir with the two keys compared the other way round
AvlNode_dir_swapped(node, key) ==
    IF node.key < key THEN "Left"
    ELSE IF node.key > key THEN "Right"
    ELSE "None"

AvlNode_dir(node, key) ==
    IF key < node.key THEN "Left"
    ELSE IF key > node.key THEN "Right"
    ELSE "None"

\* The result of an operator working on a slot: the slot afterwards, the
\* returned bool, whether the call panicked, and the log of the rotate and
\* rebalance calls made on the way (see Call).
Ret(anchor, ret, panic, log) ==
    [anchor |-> anchor, ret |-> ret, panic |-> panic, log |-> log]

\* One entry of the log: the function called, its dir argument, the slot
\* before and after the call, the returned bool, the branch taken (for
\* rebalance), the returned depth (for leftmost) and whether the call
\* panicked.
Call(fn, dir, before, after, ret, branch, depth, panic) ==
    [fn |-> fn, dir |-> dir, before |-> before, after |-> after, ret |-> ret,
     branch |-> branch, depth |-> depth, panic |-> panic]

\* The result r of a call of fn on the slot before, with the call's entry
\* added to the log: the slot before and after, the returned bool and, for
\* leftmost_rebalance, the depth argument.
Logged(fn, before, depth, r) ==
    Ret(r.anchor, r.ret, r.panic,
        r.log \o <<Call(fn, "None", before, r.anchor, r.ret, "", depth, r.panic)>>)

----------------------------------------------------------------------------
\* rotate

\* rotate that leaves behind the subtree the promoted child hands over
rotate_drop_inner(anchor, dir) ==
    IF anchor = None \/ Idx(Not(dir)) > 2
    THEN [anchor |-> anchor, panic |-> TRUE]
    ELSE LET node == anchor[1]
             nd == Idx(Not(dir))
             d == Idx(dir)
         IN IF node.children[nd] = None
            THEN [anchor |-> anchor, panic |-> TRUE]
            ELSE LET new_root == node.children[nd][1]
                     node2 == [node EXCEPT !.children[nd] = None]
                     new_root2 == [new_root EXCEPT !.children[d] = Some(node2)]
                 IN [anchor |-> Some(new_root2), panic |-> FALSE]

\* rotate promoting the child on side dir instead of the one on side !dir
rotate_same_side(anchor, dir) ==
    IF anchor = None \/ Idx(dir) > 2
    THEN [anchor |-> anchor, panic |-> TRUE]
    ELSE LET node == anchor[1]
             nd == Idx(Not(dir))
             d == Idx(dir)
         IN IF node.children[d] = None
            THEN [anchor |-> anchor, panic |-> TRUE]
            ELSE LET new_root == node.children[d][1]
                     node2 == [node EXCEPT !.children[d] = new_root.children[nd]]
                     new_root2 == [new_root EXCEPT !.children[nd] = Some(node2)]
                 IN [anchor |-> Some(new_root2), panic |-> FALSE]

rotate(anchor, dir) ==
    IF anchor = None \/ Idx(Not(dir)) > 2
    THEN [anchor |-> anchor, panic |-> TRUE]
    ELSE LET node == anchor[1]
             nd == Idx(Not(dir))
             d == Idx(dir)
         IN IF node.children[nd] = None
            THEN [anchor |-> anchor, panic |-> TRUE]
            ELSE LET new_root == node.children[nd][1]
                     node2 == [node EXCEPT !.children[nd] = new_root.children[d]]
                     new_root2 == [new_root EXCEPT !.children[d] = Some(node2)]
                 IN [anchor |-> Some(new_root2), panic |-> FALSE]

----------------------------------------------------------------------------
\* Avl::check

\* min and max are Option<&K>. Returns the height as the source counts it
\* (an empty slot counts 1) and whether every assertion passed.
RECURSIVE check_aux(_, _, _)
check_aux(anchor, min, max) ==
    IF anchor = None THEN [h |-> 1, ok |-> TRUE]
    ELSE
    Bind(anchor[1], LAMBDA node :
    Bind(check_aux(node.children[1], min, Some(node.key)), LAMBDA l :
    Bind(check_aux(node.children[2], Some(node.key), max), LAMBDA r :
    Bind(r.h - l.h, LAMBDA diff :
        [h |-> (IF l.h > r.h THEN l.h ELSE r.h) + 1,
         ok |-> /\ (min # None) => (node.key > min[1])
                /\ (max # None) => (node.key < max[1])
                /\ l.ok
                /\ r.ok
                /\ CASE diff = 1 -> node.longer_side = "Right"
                     [] diff = -1 -> node.longer_side = "Left"
                     [] diff = 0 -> node.longer_side = "None"
                     [] OTHER -> FALSE]))))

check(self_root) == check_aux(self_root, None, None).ok

----------------------------------------------------------------------------
\* Avl::contains

RECURSIVE contains_aux(_, _)
contains_aux(anchor, key) ==
    IF anchor = None THEN FALSE
    ELSE LET node == anchor[1]
             dir == AvlNode_dir(node, key)
         IN IF dir = "None" THEN TRUE
            ELSE contains_aux(node.children[Idx(dir)], key)

contains(self_root, key) == contains_aux(self_root, key)

----------------------------------------------------------------------------
\* Avl::rebalance

\* rebalance_split giving the node the side dir instead of !dir when the
\* grandchild leans toward dir
rebalance_split_same(gls, dir) ==
    CASE gls = "None" -> [node |-> "None", child |-> "None"]
      [] gls = dir -> [node |-> dir, child |-> "None"]
      [] OTHER -> [node |-> "None", child |-> dir]

\* The double rotation's match on grandchild.longer_side: the longer_side
\* it gives the node and the child.
rebalance_split(gls, dir) ==
    CASE gls = "None" -> [node |-> "None", child |-> "None"]
      [] gls = dir -> [node |-> Not(dir), child |-> "None"]
      [] OTHER -> [node |-> "None", child |-> dir]

\* rotate(a, d), with the call's entry in the log
rotate_logged(a, d) ==
    Bind(rotate(a, d), LAMBDA r :
        [anchor |-> r.anchor, panic |-> r.panic,
         log |-> <<Call("rotate", d, a, r.anchor, FALSE, "", 0, r.panic)>>])

\* rebalance reporting a changed height from every branch
rebalance_out_true(anchor, dir, after, ret, panic, branch, rots) ==
    Ret(after, TRUE, panic,
        rots \o <<Call("rebalance", dir, anchor, after, TRUE, branch, 0, panic)>>)

\* What a call rebalance(anchor, dir) gives: the slot afterwards, the
\* returned bool, and the log of the rotate calls it made (rots) followed
\* by the entry of the call itself.
rebalance_out(anchor, dir, after, ret, panic, branch, rots) ==
    Ret(after, ret, panic,
        rots \o <<Call("rebalance", dir, anchor, after, ret, branch, 0, panic)>>)

rebalance(anchor, dir) ==
    IF anchor = None THEN rebalance_out(anchor, dir, anchor, FALSE, TRUE, "unwrap", <<>>)
    ELSE
    Bind(anchor[1], LAMBDA node :
    CASE node.longer_side = "None" ->
            rebalance_out(anchor, dir, Some([node EXCEPT !.longer_side = dir]),
                          TRUE, FALSE, "balanced", <<>>)
      [] node.longer_side # "None" /\ node.longer_side # dir ->
            rebalance_out(anchor, dir, Some([node EXCEPT !.longer_side = "None"]),
                          FALSE, FALSE, "opposite", <<>>)
      [] OTHER ->
            IF node.children[Idx(dir)] = None
            THEN rebalance_out(anchor, dir, anchor, FALSE, TRUE, "unwrap", <<>>)
            ELSE
            Bind(node.children[Idx(dir)][1], LAMBDA child :
            CASE child.longer_side = "None" ->
                    Bind([child EXCEPT !.longer_side = Not(dir)], LAMBDA child2 :
                    Bind([node EXCEPT !.longer_side = dir,
                                      !.children[Idx(dir)] = Some(child2)], LAMBDA node2 :
                    Bind(rotate_logged(Some(node2), Not(dir)), LAMBDA r :
                        rebalance_out(anchor, dir, r.anchor, TRUE, r.panic,
                                      "child_balanced", r.log))))
              [] child.longer_side = dir ->
                    Bind([child EXCEPT !.longer_side = "None"], LAMBDA child2 :
                    Bind([node EXCEPT !.longer_side = "None",
                                      !.children[Idx(dir)] = Some(child2)], LAMBDA node2 :
                    Bind(rotate_logged(Some(node2), Not(dir)), LAMBDA r :
                        rebalance_out(anchor, dir, r.anchor, FALSE, r.panic,
                                      "child_same", r.log))))
              [] OTHER ->
                    IF child.children[Idx(Not(dir))] = None
                    THEN rebalance_out(anchor, dir, anchor, FALSE, TRUE, "unwrap", <<>>)
                    ELSE
                    Bind(child.children[Idx(Not(dir))][1], LAMBDA grandchild :
                    Bind(rebalance_split(grandchild.longer_side, dir), LAMBDA split :
                    Bind([grandchild EXCEPT !.longer_side = "None"], LAMBDA grandchild2 :
                    Bind([child EXCEPT !.longer_side = split.child,
                                       !.children[Idx(Not(dir))] = Some(grandchild2)],
                         LAMBDA child2 :
                    Bind(rotate_logged(Some(child2), dir), LAMBDA r1 :
                    Bind([node EXCEPT !.longer_side = split.node,
                                      !.children[Idx(dir)] = r1.anchor], LAMBDA node2 :
                    IF r1.panic
                    THEN rebalance_out(anchor, dir, Some(node2), FALSE, TRUE,
                                       "child_opposite", r1.log)
                    ELSE
                    Bind(rotate_logged(Some(node2), Not(dir)), LAMBDA r2 :
                        rebalance_out(anchor, dir, r2.anchor, FALSE, r2.panic,
                                      "child_opposite", r1.log \o r2.log))))))))))

----------------------------------------------------------------------------
\* Avl::insert

\* insert's aux reporting a height increase when the key is already stored
RECURSIVE insert_aux_equal_grows(_, _)
insert_aux_equal_grows(anchor, key) ==
    Logged("insert_aux", anchor, 0,
    IF anchor = None THEN Ret(Some(AvlNode_new(key)), TRUE, FALSE, <<>>)
    ELSE
    Bind(anchor[1], LAMBDA node :
    Bind(AvlNode_dir(node, key), LAMBDA dir :
    IF dir = "None" THEN Ret(anchor, TRUE, FALSE, <<>>)
    ELSE
    Bind(insert_aux_equal_grows(node.children[Idx(dir)], key), LAMBDA r :
    Bind(Some([node EXCEPT !.children[Idx(dir)] = r.anchor]), LAMBDA a2 :
    IF r.panic THEN Ret(a2, FALSE, TRUE, r.log)
    ELSE IF ~r.ret THEN Ret(a2, FALSE, FALSE, r.log)
    ELSE Bind(rebalance(a2, dir), LAMBDA rb :
             Ret(rb.anchor, rb.ret, rb.panic, r.log \o rb.log)))))))

\* insert's aux that rebalances every node on the way back, whether or not
\* the subtree below it grew
RECURSIVE insert_aux_always_rebalance(_, _)
insert_aux_always_rebalance(anchor, key) ==
    Logged("insert_aux", anchor, 0,
    IF anchor = None THEN Ret(Some(AvlNode_new(key)), TRUE, FALSE, <<>>)
    ELSE
    Bind(anchor[1], LAMBDA node :
    Bind(AvlNode_dir(node, key), LAMBDA dir :
    IF dir = "None" THEN Ret(anchor, FALSE, FALSE, <<>>)
    ELSE
    Bind(insert_aux_always_rebalance(node.children[Idx(dir)], key), LAMBDA r :
    Bind(Some([node EXCEPT !.children[Idx(dir)] = r.anchor]), LAMBDA a2 :
    IF r.panic THEN Ret(a2, FALSE, TRUE, r.log)
    ELSE Bind(rebalance(a2, dir), LAMBDA rb :
             Ret(rb.anchor, rb.ret, rb.panic, r.log \o rb.log)))))))

RECURSIVE insert_aux(_, _)
insert_aux(anchor, key) ==
    Logged("insert_aux", anchor, 0,
    IF anchor = None THEN Ret(Some(AvlNode_new(key)), TRUE, FALSE, <<>>)
    ELSE
    Bind(anchor[1], LAMBDA node :
    Bind(AvlNode_dir(node, key), LAMBDA dir :
    IF dir = "None" THEN Ret(anchor, FALSE, FALSE, <<>>)
    ELSE
    Bind(insert_aux(node.children[Idx(dir)], key), LAMBDA r :
    Bind(Some([node EXCEPT !.children[Idx(dir)] = r.anchor]), LAMBDA a2 :
    IF r.panic THEN Ret(a2, FALSE, TRUE, r.log)
    ELSE IF ~r.ret THEN Ret(a2, FALSE, FALSE, r.log)
    ELSE Bind(rebalance(a2, dir), LAMBDA rb :
             Ret(rb.anchor, rb.ret, rb.panic, r.log \o rb.log)))))))

\* insert as a plain binary search tree does it: the key is attached where
\* the descent ends, nothing is rebalanced and the tree is not checked
RECURSIVE insert_aux_unbalanced(_, _)
insert_aux_unbalanced(anchor, key) ==
    IF anchor = None THEN Some(AvlNode_new(key))
    ELSE LET node == anchor[1]
             dir == AvlNode_dir(node, key)
         IN IF dir = "None" THEN anchor
            ELSE Some([node EXCEPT !.children[Idx(dir)] =
                                        insert_aux_unbalanced(node.children[Idx(dir)], key)])

insert_unbalanced(self_root, key) ==
    [root |-> insert_aux_unbalanced(self_root, key), panic |-> FALSE, log |-> <<>>]

\* aux(&mut self.root, key); self.check();
insert(self_root, key) ==
    Bind(insert_aux(self_root, key), LAMBDA r :
        [root |-> r.anchor, panic |-> r.panic \/ ~check(r.anchor), log |-> r.log])

----------------------------------------------------------------------------
\* Avl::remove

\* leftmost leaving the detached node's right child with the detached node
\* instead of putting it in the detached node's place
RECURSIVE leftmost_drop_right(_)
leftmost_drop_right(node) ==
    IF node.children[1] = None
    THEN [ret |-> node, depth |-> 0, node |-> node, panic |-> TRUE]
    ELSE
    Bind(node.children[1][1], LAMBDA c :
    IF c.children[1] # None
    THEN Bind(leftmost_drop_right(c), LAMBDA r :
            [ret |-> r.ret, depth |-> r.depth + 1,
             node |-> [node EXCEPT !.children[1] = Some(r.node)],
             panic |-> r.panic])
    ELSE [ret |-> c, depth |-> 0,
          node |-> [node EXCEPT !.children[1] = None],
          panic |-> FALSE])

\* node is the Box the walk starts from; the result holds the detached
\* leftmost node (ret), its depth, and the Box as the walk leaves it.
RECURSIVE leftmost(_)
leftmost(node) ==
    IF node.children[1] = None
    THEN [ret |-> node, depth |-> 0, node |-> node, panic |-> TRUE]
    ELSE
    Bind(node.children[1][1], LAMBDA c :
    IF c.children[1] # None
    THEN Bind(leftmost(c), LAMBDA r :
            [ret |-> r.ret, depth |-> r.depth + 1,
             node |-> [node EXCEPT !.children[1] = Some(r.node)],
             panic |-> r.panic])
    ELSE [ret |-> [c EXCEPT !.children[2] = None], depth |-> 0,
          node |-> [node EXCEPT !.children[1] = c.children[2]],
          panic |-> FALSE])

\* !Avl::rebalance(anchor, dir)
NotRebalance(anchor, dir) ==
    Bind(rebalance(anchor, dir), LAMBDA r : Ret(r.anchor, ~r.ret, r.panic, r.log))

\* leftmost_rebalance that rebalances every level up to the root of the
\* right subtree, whether or not the level below reported a decrease
RECURSIVE leftmost_rebalance_all_levels(_, _)
leftmost_rebalance_all_levels(anchor, depth) ==
    Logged("leftmost_rebalance", anchor, depth,
    IF anchor = None THEN Ret(anchor, FALSE, TRUE, <<>>)
    ELSE
    Bind(anchor[1], LAMBDA node :
    IF depth > 0
    THEN Bind(leftmost_rebalance_all_levels(node.children[1], depth - 1), LAMBDA r :
         Bind(Some([node EXCEPT !.children[1] = r.anchor]), LAMBDA a2 :
         IF r.panic THEN Ret(a2, FALSE, TRUE, r.log)
         ELSE Bind(NotRebalance(a2, "Right"), LAMBDA rb :
                  Ret(rb.anchor, rb.ret, rb.panic, r.log \o rb.log))))
    ELSE NotRebalance(anchor, "Right")))

RECURSIVE leftmost_rebalance(_, _)
leftmost_rebalance(anchor, depth) ==
    Logged("leftmost_rebalance", anchor, depth,
    IF anchor = None THEN Ret(anchor, FALSE, TRUE, <<>>)
    ELSE
    Bind(anchor[1], LAMBDA node :
    IF depth > 0
    THEN Bind(leftmost_rebalance(node.children[1], depth - 1), LAMBDA r :
         Bind(Some([node EXCEPT !.children[1] = r.anchor]), LAMBDA a2 :
         IF r.panic THEN Ret(a2, FALSE, TRUE, r.log)
         ELSE IF ~r.ret THEN Ret(a2, FALSE, FALSE, r.log)
         ELSE Bind(NotRebalance(a2, "Right"), LAMBDA rb :
                  Ret(rb.anchor, rb.ret, rb.panic, r.log \o rb.log))))
    ELSE NotRebalance(anchor, "Right")))

\* remove_found that leaves the successor with the longer_side it had in
\* the right subtree
remove_found_own_side(node) ==
    Bind(node.children[1], LAMBDA left :
    Bind(node.children[2], LAMBDA right :
    CASE left = None /\ right = None -> Ret(None, TRUE, FALSE, <<>>)
      [] left # None /\ right = None -> Ret(left, TRUE, FALSE, <<>>)
      [] left = None /\ right # None -> Ret(right, TRUE, FALSE, <<>>)
      [] OTHER ->
            IF right[1].children[1] = None
            THEN NotRebalance(Some([right[1] EXCEPT !.children[1] = left]),
                              "Left")
            ELSE
            Bind(leftmost(right[1]), LAMBDA lm :
            Bind(<<Call("leftmost", "Left", right, Some(lm.node), FALSE, "",
                        lm.depth, lm.panic)>>, LAMBDA lmlog :
            IF lm.panic THEN Ret(None, FALSE, TRUE, lmlog)
            ELSE
            Bind(leftmost_rebalance(Some(lm.node), lm.depth), LAMBDA lr :
            Bind(Some([lm.ret EXCEPT !.children[1] = left,
                                     !.children[2] = lr.anchor]), LAMBDA new_anchor :
            IF lr.panic THEN Ret(new_anchor, FALSE, TRUE, lmlog \o lr.log)
            ELSE IF lr.ret
            THEN Bind(NotRebalance(new_anchor, "Left"), LAMBDA rb :
                     Ret(rb.anchor, rb.ret, rb.panic, lmlog \o lr.log \o rb.log))
            ELSE Ret(new_anchor, FALSE, FALSE, lmlog \o lr.log)))))))

\* The arm of aux for the node that holds the key: the slot is emptied,
\* replaced by the only child, or refilled from the right subtree.
remove_found(node) ==
    Bind(node.children[1], LAMBDA left :
    Bind(node.children[2], LAMBDA right :
    CASE left = None /\ right = None -> Ret(None, TRUE, FALSE, <<>>)
      [] left # None /\ right = None -> Ret(left, TRUE, FALSE, <<>>)
      [] left = None /\ right # None -> Ret(right, TRUE, FALSE, <<>>)
      [] OTHER ->
            IF right[1].children[1] = None
            THEN NotRebalance(Some([right[1] EXCEPT !.children[1] = left,
                                                    !.longer_side = node.longer_side]),
                              "Left")
            ELSE
            Bind(leftmost(right[1]), LAMBDA lm :
            Bind(<<Call("leftmost", "Left", right, Some(lm.node), FALSE, "",
                        lm.depth, lm.panic)>>, LAMBDA lmlog :
            IF lm.panic THEN Ret(None, FALSE, TRUE, lmlog)
            ELSE
            Bind(leftmost_rebalance(Some(lm.node), lm.depth), LAMBDA lr :
            Bind(Some([lm.ret EXCEPT !.longer_side = node.longer_side,
                                     !.children[1] = left,
                                     !.children[2] = lr.anchor]), LAMBDA new_anchor :
            IF lr.panic THEN Ret(new_anchor, FALSE, TRUE, lmlog \o lr.log)
            ELSE IF lr.ret
            THEN Bind(NotRebalance(new_anchor, "Left"), LAMBDA rb :
                     Ret(rb.anchor, rb.ret, rb.panic, lmlog \o lr.log \o rb.log))
            ELSE Ret(new_anchor, FALSE, FALSE, lmlog \o lr.log)))))))

\* remove's aux reporting a height decrease when the key is not stored
RECURSIVE remove_aux_missing_shrinks(_, _)
remove_aux_missing_shrinks(anchor, key) ==
    Logged("remove_aux", anchor, 0,
    IF anchor = None THEN Ret(anchor, TRUE, FALSE, <<>>)
    ELSE
    Bind(anchor[1], LAMBDA node :
    Bind(AvlNode_dir(node, key), LAMBDA dir :
    IF dir = "None" THEN remove_found(node)
    ELSE
    Bind(remove_aux_missing_shrinks(node.children[Idx(dir)], key), LAMBDA r :
    Bind(Some([node EXCEPT !.children[Idx(dir)] = r.anchor]), LAMBDA a2 :
    IF r.panic THEN Ret(a2, FALSE, TRUE, r.log)
    ELSE IF ~r.ret THEN Ret(a2, FALSE, FALSE, r.log)
    ELSE Bind(NotRebalance(a2, Not(dir)), LAMBDA rb :
             Ret(rb.anchor, rb.ret, rb.panic, r.log \o rb.log)))))))

\* remove's aux that rebalances every node on the way back, whether or not
\* the subtree below it shrank
RECURSIVE remove_aux_always_rebalance(_, _)
remove_aux_always_rebalance(anchor, key) ==
    Logged("remove_aux", anchor, 0,
    IF anchor = None THEN Ret(anchor, FALSE, FALSE, <<>>)
    ELSE
    Bind(anchor[1], LAMBDA node :
    Bind(AvlNode_dir(node, key), LAMBDA dir :
    IF dir = "None" THEN remove_found(node)
    ELSE
    Bind(remove_aux_always_rebalance(node.children[Idx(dir)], key), LAMBDA r :
    Bind(Some([node EXCEPT !.children[Idx(dir)] = r.anchor]), LAMBDA a2 :
    IF r.panic THEN Ret(a2, FALSE, TRUE, r.log)
    ELSE Bind(NotRebalance(a2, Not(dir)), LAMBDA rb :
             Ret(rb.anchor, rb.ret, rb.panic, r.log \o rb.log)))))))

RECURSIVE remove_aux(_, _)
remove_aux(anchor, key) ==
    Logged("remove_aux", anchor, 0,
    IF anchor = None THEN Ret(anchor, FALSE, FALSE, <<>>)
    ELSE
    Bind(anchor[1], LAMBDA node :
    Bind(AvlNode_dir(node, key), LAMBDA dir :
    IF dir = "None" THEN remove_found(node)
    ELSE
    Bind(remove_aux(node.children[Idx(dir)], key), LAMBDA r :
    Bind(Some([node EXCEPT !.children[Idx(dir)] = r.anchor]), LAMBDA a2 :
    IF r.panic THEN Ret(a2, FALSE, TRUE, r.log)
    ELSE IF ~r.ret THEN Ret(a2, FALSE, FALSE, r.log)
    ELSE Bind(NotRebalance(a2, Not(dir)), LAMBDA rb :
             Ret(rb.anchor, rb.ret, rb.panic, r.log \o rb.log)))))))

\* aux(&mut self.root, key); self.check();
remove(self_root, key) ==
    Bind(remove_aux(self_root, key), LAMBDA r :
        [root |-> r.anchor, panic |-> r.panic \/ ~check(r.anchor), log |-> r.log])

----------------------------------------------------------------------------
\* The non-consuming iterator

\* IterRef::next visiting the right child before the node and the left
\* child after it
RECURSIVE IterRef_next_right_first(_)
IterRef_next_right_first(stack) ==
    IF stack = <<>> THEN [stack |-> stack, item |-> None]
    ELSE LET top == stack[Len(stack)]
             rest == SubSeq(stack, 1, Len(stack) - 1)
             state == top[1]
             anchor == top[2]
         IN IF anchor = None THEN IterRef_next_right_first(rest)
            ELSE LET node == anchor[1] IN
                 IF state = "Unexplored"
                 THEN IterRef_next_right_first(
                          rest \o << <<"YieldedLeft", anchor>>,
                                     <<"Unexplored", node.children[2]>> >>)
                 ELSE [stack |-> Append(rest, <<"Unexplored", node.children[1]>>),
                       item |-> Some(node.key)]

\* IterRef::next not pushing the right child when it yields a node
RECURSIVE IterRef_next_no_right(_)
IterRef_next_no_right(stack) ==
    IF stack = <<>> THEN [stack |-> stack, item |-> None]
    ELSE LET top == stack[Len(stack)]
             rest == SubSeq(stack, 1, Len(stack) - 1)
             state == top[1]
             anchor == top[2]
         IN IF anchor = None THEN IterRef_next_no_right(rest)
            ELSE LET node == anchor[1] IN
                 IF state = "Unexplored"
                 THEN IterRef_next_no_right(
                          rest \o << <<"YieldedLeft", anchor>>,
                                     <<"Unexplored", node.children[1]>> >>)
                 ELSE [stack |-> rest, item |-> Some(node.key)]

RECURSIVE IterRef_next(_)
IterRef_next(stack) ==
    IF stack = <<>> THEN [stack |-> stack, item |-> None]
    ELSE LET top == stack[Len(stack)]
             rest == SubSeq(stack, 1, Len(stack) - 1)
             state == top[1]
             anchor == top[2]
         IN IF anchor = None THEN IterRef_next(rest)
            ELSE LET node == anchor[1] IN
                 IF state = "Unexplored"
                 THEN IterRef_next(rest \o << <<"YieldedLeft", anchor>>,
                                              <<"Unexplored", node.children[1]>> >>)
                 ELSE [stack |-> Append(rest, <<"Unexplored", node.children[2]>>),
                       item |-> Some(node.key)]

\* <&Avl<K> as IntoIterator>::into_iter, which Avl::iter calls
iter(self_root) == << <<"Unexplored", self_root>> >>

----------------------------------------------------------------------------
\* The consuming iterator

\* Iter::next not pushing the right child when it yields a node
RECURSIVE Iter_next_no_right(_)
Iter_next_no_right(stack) ==
    IF stack = <<>> THEN [stack |-> stack, item |-> None]
    ELSE LET anchor == stack[Len(stack)]
             rest == SubSeq(stack, 1, Len(stack) - 1)
         IN IF anchor = None THEN Iter_next_no_right(rest)
            ELSE LET node == anchor[1] IN
                 IF node.children[1] # None
                 THEN Iter_next_no_right(
                          rest \o << Some([node EXCEPT !.children[1] = None]),
                                     node.children[1] >>)
                 ELSE [stack |-> rest, item |-> Some(node.key)]

RECURSIVE Iter_next(_)
Iter_next(stack) ==
    IF stack = <<>> THEN [stack |-> stack, item |-> None]
    ELSE LET anchor == stack[Len(stack)]
             rest == SubSeq(stack, 1, Len(stack) - 1)
         IN IF anchor = None THEN Iter_next(rest)
            ELSE LET node == anchor[1] IN
                 IF node.children[1] # None
                 THEN Iter_next(rest \o << Some([node EXCEPT !.children[1] = None]),
                                           node.children[1] >>)
                 ELSE [stack |-> Append(rest, node.children[2]),
                       item |-> Some(node.key)]

\* <Avl<K> as IntoIterator>::into_iter
into_iter(self_root) == << self_root >>

----------------------------------------------------------------------------
\* The programs a specification leaves alone

NoHeapCall == [op |-> "none", key |-> 0, ret |-> None, expected |-> None]

\* no heap is in use
HeapIdle ==
    /\ hp_kind = "none"
    /\ heap = [root |-> None, size |-> 0]
    /\ hp_ref = <<>>
    /\ hp_last = NoHeapCall
    /\ hp_panicked = FALSE
    /\ bp_index = 0
    /\ bp_ret = None

NoVecCall == [op |-> "none", index |-> 0, value |-> 0, ret |-> None, expected |-> None]

\* no ImplTreap is in use
VecIdle ==
    /\ itreap = [root |-> None, size |-> 0]
    /\ vec_ref = <<>>
    /\ vec_last = NoVecCall
    /\ vec_panicked = FALSE
    /\ vec_build = "none"

NoTreapCall == [op |-> "none", key |-> 0, ret |-> None, ret2 |-> None]

\* no Treap is in use
TreapIdle ==
    /\ treap = None
    /\ treap2 = None
    /\ tr_ref = {}
    /\ tr_last = NoTreapCall
    /\ tr_panicked = FALSE

NoBstCall == [op |-> "none", key |-> 0, ret |-> None, avl |-> None]

\* no Bst is in use
BstIdle ==
    /\ bst = None
    /\ bst_last = NoBstCall
    /\ bst_panicked = FALSE

----------------------------------------------------------------------------
\* The client of the Avl

NoCall == [op |-> "none", key |-> 0, hit |-> FALSE, ret |-> FALSE]

\* What the state keeps of a log: which calls were made, with which dir,
\* which branch each took and what it returned.
Summary(log) ==
    [i \in 1..Len(log) |->
        [fn |-> log[i].fn, dir |-> log[i].dir, branch |-> log[i].branch,
         depth |-> log[i].depth, ret |-> log[i].ret]]

\* no call has been made on the Avl
AvlInit ==
    /\ root = None
    /\ ref = {}
    /\ last = NoCall
    /\ trace = <<>>
    /\ calls = <<>>
    /\ panicked = FALSE
    /\ mode = "idle"
    /\ it_stack = <<>>
    /\ it_rets = <<>>
    /\ ci_stack = <<>>
    /\ ci_rets = <<>>
    /\ consumed = None

Init == AvlInit /\ HeapIdle /\ VecIdle /\ TreapIdle /\ BstIdle

\* The client is between two calls: no iterator is alive, no call has
\* panicked, and the previous call's result has been taken.
Ready == mode = "idle" /\ ~panicked /\ last = NoCall

\* the tree, the panic flag and the trace after a call that gave r
Returned(r) ==
    /\ root' = r.root
    /\ panicked' = r.panic
    /\ trace' = Summary(r.log)
    /\ calls' = r.log

Insert(key) ==
    /\ Ready
    /\ Returned(insert(root, key))
    /\ ref' = ref \cup {key}
    /\ last' = [op |-> "insert", key |-> key, hit |-> key \in ref, ret |-> FALSE]
    /\ UNCHANGED <<mode, it_stack, it_rets, ci_stack, ci_rets, consumed,
                   heap_vars, vec_vars, treap_vars, bst_vars>>

Remove(key) ==
    /\ Ready
    /\ Returned(remove(root, key))
    /\ ref' = ref \ {key}
    /\ last' = [op |-> "remove", key |-> key, hit |-> key \in ref, ret |-> FALSE]
    /\ UNCHANGED <<mode, it_stack, it_rets, ci_stack, ci_rets, consumed,
                   heap_vars, vec_vars, treap_vars, bst_vars>>

Contains(key) ==
    /\ Ready
    /\ last' = [op |-> "contains", key |-> key, hit |-> key \in ref,
                ret |-> contains(root, key)]
    /\ trace' = <<>>
    /\ calls' = <<>>
    /\ UNCHANGED <<root, ref, panicked, mode, it_stack, it_rets, ci_stack,
                   ci_rets, consumed, heap_vars, vec_vars, treap_vars,
                   bst_vars>>

\* insert, remove or contains has returned and the client goes on
Return ==
    /\ mode = "idle" /\ ~panicked /\ last # NoCall
    /\ last' = NoCall
    /\ trace' = <<>>
    /\ calls' = <<>>
    /\ UNCHANGED <<root, ref, panicked, mode, it_stack, it_rets, ci_stack,
                   ci_rets, consumed, heap_vars, vec_vars, treap_vars,
                   bst_vars>>

\* t.iter(): the tree is borrowed until the IterRef is dropped
StartIter ==
    /\ Ready
    /\ mode' = "iter"
    /\ it_stack' = iter(root)
    /\ it_rets' = <<>>
    /\ UNCHANGED <<root, ref, last, trace, calls, panicked, ci_stack,
                   ci_rets, consumed, heap_vars, vec_vars, treap_vars,
                   bst_vars>>

IterRefReturned(r) ==
    /\ it_stack' = r.stack
    /\ it_rets' = Append(it_rets, r.item)

\* one call of IterRef::next
IterRefNext ==
    /\ mode = "iter"
    /\ Len(it_rets) < Cardinality(ref) + 1 + MaxExtraNext
    /\ IterRefReturned(IterRef_next(it_stack))
    /\ UNCHANGED <<root, ref, last, trace, calls, panicked, mode, ci_stack,
                   ci_rets, consumed, heap_vars, vec_vars, treap_vars,
                   bst_vars>>

DropIterRef ==
    /\ mode = "iter"
    /\ mode' = "idle"
    /\ it_stack' = <<>>
    /\ it_rets' = <<>>
    /\ UNCHANGED <<root, ref, last, trace, calls, panicked, ci_stack,
                   ci_rets, consumed, heap_vars, vec_vars, treap_vars,
                   bst_vars>>

\* t.into_iter(): the tree is moved into the Iter
StartIntoIter ==
    /\ Ready
    /\ mode' = "into_iter"
    /\ ci_stack' = into_iter(root)
    /\ ci_rets' = <<>>
    /\ consumed' = root
    /\ root' = None
    /\ ref' = {}
    /\ UNCHANGED <<last, trace, calls, panicked, it_stack, it_rets,
                   heap_vars, vec_vars, treap_vars, bst_vars>>

IterReturned(r) ==
    /\ ci_stack' = r.stack
    /\ ci_rets' = Append(ci_rets, r.item)

\* one call of Iter::next
IterNext ==
    /\ mode = "into_iter"
    /\ Len(ci_rets) < Cardinality(Keys) + 1 + MaxExtraNext
    /\ IterReturned(Iter_next(ci_stack))
    /\ UNCHANGED <<root, ref, last, trace, calls, panicked, mode, it_stack,
                   it_rets, consumed, heap_vars, vec_vars, treap_vars,
                   bst_vars>>

\* the Iter is dropped; the client goes on with a new Avl::new()
DropIter ==
    /\ mode = "into_iter"
    /\ mode' = "idle"
    /\ ci_stack' = <<>>
    /\ ci_rets' = <<>>
    /\ consumed' = None
    /\ UNCHANGED <<root, ref, last, trace, calls, panicked, it_stack,
                   it_rets, heap_vars, vec_vars, treap_vars, bst_vars>>

Next ==
    \/ \E key \in Keys : Insert(key)
    \/ \E key \in Keys : Remove(key)
    \/ \E key \in Keys : Contains(key)
    \/ Return
    \/ StartIter
    \/ IterRefNext
    \/ DropIterRef
    \/ StartIntoIter
    \/ IterNext
    \/ DropIter

Spec == Init /\ [][Next]_vars

----------------------------------------------------------------------------
\* What the properties below are stated with: the nodes, keys and heights
\* of a tree, computed without the program's own operators.

RECURSIVE Nodes(_)
Nodes(anchor) ==
    IF anchor = None THEN {}
    ELSE {anchor[1]} \cup Nodes(anchor[1].children[1]) \cup Nodes(anchor[1].children[2])

RECURSIVE KeysOf(_)
KeysOf(anchor) ==
    IF anchor = None THEN {}
    ELSE {anchor[1].key} \cup KeysOf(anchor[1].children[1]) \cup KeysOf(anchor[1].children[2])

RECURSIVE NodeCount(_)
NodeCount(anchor) ==
    IF anchor = None THEN 0
    ELSE 1 + NodeCount(anchor[1].children[1]) + NodeCount(anchor[1].children[2])

\* empty subtree = 0, leaf = 1
RECURSIVE Height(_)
Height(anchor) ==
    IF anchor = None THEN 0
    ELSE LET l == Height(anchor[1].children[1])
             r == Height(anchor[1].children[2])
         IN 1 + (IF l > r THEN l ELSE r)

\* the keys of a set in increasing order
RECURSIVE SortedSeq(_)
SortedSeq(S) ==
    IF S = {} THEN <<>>
    ELSE LET m == CHOOSE x \in S : \A y \in S : x <= y
         IN <<m>> \o SortedSeq(S \ {m})

\* the keys a sequence of next() results holds, in order
RECURSIVE Yielded(_)
Yielded(rets) ==
    IF rets = <<>> THEN <<>>
    ELSE (IF Head(rets) = None THEN <<>> ELSE <<Head(rets)[1]>>) \o Yielded(Tail(rets))

BstOrdering(anchor) ==
    \A node \in Nodes(anchor) :
        /\ \A k \in KeysOf(node.children[1]) : k < node.key
        /\ \A k \in KeysOf(node.children[2]) : k > node.key

AvlBalance(anchor) ==
    \A node \in Nodes(anchor) :
        LET diff == Height(node.children[2]) - Height(node.children[1])
        IN /\ diff \in {-1, 0, 1}
           /\ node.longer_side = (CASE diff = 1 -> "Right"
                                    [] diff = -1 -> "Left"
                                    [] OTHER -> "None")

\* some call of the last operation took this branch of rebalance
Took(branch) == \E i \in 1..Len(trace) : trace[i].branch = branch

----------------------------------------------------------------------------
\* C1: after every insert and remove, every node's key is strictly greater
\* than every key of its left subtree and strictly less than every key of
\* its right subtree, and no two nodes hold the same key.
C1_BstOrdering ==
    /\ BstOrdering(root)
    /\ NodeCount(root) = Cardinality(KeysOf(root))

\* a remove of a stored key that needed a double rotation, in a tree of height 4
C1_Witness ==
    /\ last.op = "remove" /\ last.hit
    /\ Took("child_opposite")
    /\ Height(root) = 4

\* C2: after every insert and remove, every node's right height minus left
\* height is -1, 0 or 1 and its longer_side says which.
C2_AvlBalance == AvlBalance(root)

\* a remove that took the single rotation with a balanced child, leaving
\* nodes of all three longer_side values
C2_Witness ==
    /\ last.op = "remove" /\ last.hit
    /\ Took("child_balanced")
    /\ \A d \in NodeDirection : \E node \in Nodes(root) : node.longer_side = d

\* C3: contains(k) is true exactly when k is in the reference set, for the
\* tree as it stands after any calls and for each contains call made.
C3_Membership ==
    /\ \A k \in Keys : contains(root, k) <=> (k \in ref)
    /\ (last.op = "contains") => (last.ret <=> (last.key \in ref))

\* contains finds a key that is not at the root of a tree of height 4 from
\* which keys were removed
C3_Witness ==
    /\ last.op = "contains" /\ last.ret
    /\ Height(root) = 4
    /\ root[1].key # last.key
    /\ Cardinality(ref) < MaxKey

\* every key a fresh IterRef over the slot yields, until its first None
RECURSIVE Collect(_)
Collect(stack) ==
    LET r == IterRef_next(stack)
    IN IF r.item = None THEN <<>> ELSE <<r.item[1]>> \o Collect(r.stack)

Last(seq) == seq[Len(seq)]

\* C4: iter() yields exactly the keys of the reference set, each once, in
\* strictly increasing order: for a fresh iterator run to its end on the
\* tree as it stands, and for the IterRef the client has stepped to None.
C4_IterSorted ==
    /\ Collect(iter(root)) = SortedSeq(ref)
    /\ (mode = "iter" /\ it_rets # <<>> /\ Last(it_rets) = None)
          => Yielded(it_rets) = SortedSeq(ref)

\* an IterRef stepped to its end over at least five keys with a gap
C4_Witness ==
    /\ mode = "iter" /\ it_rets # <<>> /\ Last(it_rets) = None
    /\ Cardinality(ref) >= 5
    /\ \E k \in Keys \ ref : \E a, b \in ref : a < k /\ k < b

----------------------------------------------------------------------------
\* Natural numbers of any size, as their decimal digits, least significant
\* first, to compare (n + 2)^36 with 2^(25 c).

RECURSIVE BigMulCarry(_, _, _)
BigMulCarry(a, k, carry) ==
    IF a = <<>>
    THEN (IF carry = 0 THEN <<>> ELSE <<carry % 10>> \o BigMulCarry(a, k, carry \div 10))
    ELSE LET v == Head(a) * k + carry
         IN <<v % 10>> \o BigMulCarry(Tail(a), k, v \div 10)

\* k^e, for k < 2^27
RECURSIVE BigPow(_, _)
BigPow(k, e) == IF e = 0 THEN <<1>> ELSE BigMulCarry(BigPow(k, e - 1), k, 0)

RECURSIVE BigLeqFrom(_, _, _)
BigLeqFrom(a, b, i) ==
    IF i = 0 THEN TRUE
    ELSE IF a[i] # b[i] THEN a[i] < b[i]
    ELSE BigLeqFrom(a, b, i - 1)

BigLeq(a, b) ==
    IF Len(a) # Len(b) THEN Len(a) < Len(b) ELSE BigLeqFrom(a, b, Len(a))

\* 1.44 * log2(n + 2) <= c, that is (n + 2)^36 <= 2^(25 c) since
\* 1.44 = 36/25, computed as ((n + 2)^6)^6 <= (2^25)^c
LogBoundLeq(n, c) == BigLeq(BigPow((n + 2)^6, 6), BigPow(2^25, c))

\* ceil(1.44 * log2(n + 2))
HeightBound(n) ==
    CHOOSE c \in 0..(n + 2) :
        LogBoundLeq(n, c) /\ \A b \in 0..(c - 1) : ~LogBoundLeq(n, b)

HeightBounds == [n \in 0..(MaxKey + 1) |-> HeightBound(n)]

\* C5: with n stored keys the height of the tree is at most
\* ceil(1.44 * log2(n + 2)).
C5_HeightBound == Height(root) <= HeightBounds[NodeCount(root)]

\* a tree of height 4 left by a remove
C5_Witness ==
    /\ last.op = "remove" /\ last.hit
    /\ Height(root) = 4
    /\ NodeCount(root) = 7

\* C6: a step in which insert(k) is called with k stored leaves the tree as
\* it was: same shape, same keys, same longer_side everywhere.
C6_InsertPresent ==
    [][(last = NoCall /\ last'.op = "insert" /\ last'.key \in KeysOf(root))
          => root' = root]_vars

\* insert of a key stored below the root of a tree of height 4
C6_Witness ==
    /\ last.op = "insert" /\ last.hit
    /\ Height(root) = 4
    /\ root[1].key # last.key

\* C7: a step in which remove(k) is called with k not stored leaves the
\* tree as it was, the empty tree included.
C7_RemoveAbsent ==
    [][(last = NoCall /\ last'.op = "remove" /\ last'.key \notin KeysOf(root))
          => root' = root]_vars

\* remove of a key that is not stored, from a tree of height 4
C7_Witness ==
    /\ last.op = "remove" /\ ~last.hit
    /\ Height(root) = 4

\* C8: no call ever panics: no unwrap of an empty slot or missing child in
\* rotate, rebalance, leftmost or leftmost_rebalance, no failed assertion
\* and no unreachable!() in check.
C8_NoPanic == ~panicked

\* a remove that detached the successor at depth 1 and then walked
\* leftmost_rebalance up through both levels
C8_Witness ==
    /\ last.op = "remove" /\ last.hit /\ ~panicked
    /\ \E i \in 1..Len(trace) : trace[i].fn = "leftmost" /\ trace[i].depth >= 1
    /\ Len(trace) >= 3

\* the nodes the slots of an Iter's stack still own
RECURSIVE StackNodeCount(_)
StackNodeCount(stack) ==
    IF stack = <<>> THEN 0 ELSE NodeCount(Head(stack)) + StackNodeCount(Tail(stack))

Prefix(seq, n) == SubSeq(seq, 1, IF n < Len(seq) THEN n ELSE Len(seq))

\* C9: the consuming iterator yields the stored keys once each in ascending
\* order, the sequence iter() yields; every node is either still owned by
\* its stack or has been yielded, and when it returns None the stack is
\* empty.
C9_IntoIter ==
    (mode = "into_iter") =>
        /\ Yielded(ci_rets) = Prefix(Collect(iter(consumed)), Len(ci_rets))
        /\ Yielded(ci_rets) = Prefix(SortedSeq(KeysOf(consumed)), Len(ci_rets))
        /\ StackNodeCount(ci_stack) + Len(Yielded(ci_rets)) = NodeCount(consumed)
        /\ (ci_rets # <<>> /\ Last(ci_rets) = None) =>
              /\ ci_stack = <<>>
              /\ Len(Yielded(ci_rets)) = NodeCount(consumed)

\* an Iter drained to None over a tree of height 4
C9_Witness ==
    /\ mode = "into_iter"
    /\ ci_rets # <<>> /\ Last(ci_rets) = None
    /\ Height(consumed) = 4

\* C10: an IterRef over a tree of n keys returns Some for its first n
\* next() calls and None for every later one, the keys being those of a
\* full iteration in order; no step of it changes the tree.
C10_IterRef ==
    /\ [](mode = "iter" =>
            /\ \A i \in 1..Len(it_rets) : (it_rets[i] = None) <=> (i > NodeCount(root))
            /\ Yielded(it_rets) = Prefix(SortedSeq(KeysOf(root)), Len(it_rets)))
    /\ [][mode = "iter" => root' = root]_vars

\* an IterRef asked twice more after its first None, over a tree of height 4
C10_Witness ==
    /\ mode = "iter"
    /\ Len(it_rets) >= NodeCount(root) + 3
    /\ Height(root) = 4

----------------------------------------------------------------------------
\* src/heap.rs: Heap

\* usize is modelled UsizeBits wide
UsizeBits == 16

\* How many keys a heap is given at most, and the keys it is given.
MaxHeapSize == 5
MaxHeapKey == 4
\* binary_path_to alone is called with the MaxPathIndex + 1 smallest and
\* the MaxPathIndex + 1 greatest arguments.
MaxPathIndex == 63
HeapKeys == 1..MaxHeapKey

HeapNode_new(key) == [key |-> key, children |-> <<None, None>>]

Heap_new == [root |-> None, size |-> 0]

\* format!("{:b}", n): the binary digits of n, most significant first
RECURSIVE format_b(_)
format_b(n) ==
    IF n < 2 THEN <<IF n = 0 THEN "0" ELSE "1">>
    ELSE Append(format_b(n \div 2), IF n % 2 = 0 THEN "0" ELSE "1")

\* the number of nodes, and whether every assertion passed
RECURSIVE Heap_check_aux(_, _)
Heap_check_aux(anchor, parent_key) ==
    IF anchor = None THEN [count |-> 0, ok |-> TRUE]
    ELSE
    Bind(anchor[1], LAMBDA node :
    Bind(Heap_check_aux(node.children[1], Some(node.key)), LAMBDA l :
    Bind(Heap_check_aux(node.children[2], Some(node.key)), LAMBDA r :
        [count |-> 1 + l.count + r.count,
         ok |-> /\ (parent_key # None) => (node.key < parent_key[1])
                /\ (node.children[1] = None) => (node.children[2] = None)
                /\ l.ok
                /\ r.ok])))

Heap_check(self) ==
    Bind(Heap_check_aux(self.root, None), LAMBDA r : r.ok /\ self.size = r.count)

\* path[depth] as a child index; 0 when the index is out of bounds or the
\* byte is neither b'0' nor b'1' (a panic)
Heap_dir(path, depth) ==
    IF depth >= Len(path) THEN 0
    ELSE CASE path[depth + 1] = "0" -> 1
           [] path[depth + 1] = "1" -> 2
           [] OTHER -> 0

RECURSIVE Heap_insert_aux(_, _, _, _)
Heap_insert_aux(anchor, key, path, depth) ==
    IF anchor = None THEN [anchor |-> Some(HeapNode_new(key)), panic |-> FALSE]
    ELSE
    Bind(anchor[1], LAMBDA node :
    Bind(Heap_dir(path, depth), LAMBDA dir :
    IF dir = 0 THEN [anchor |-> anchor, panic |-> TRUE]
    ELSE
    Bind(Heap_insert_aux(node.children[dir], key, path, depth + 1), LAMBDA r :
    IF r.panic \/ r.anchor = None
    THEN [anchor |-> Some([node EXCEPT !.children[dir] = r.anchor]), panic |-> TRUE]
    ELSE
    Bind(r.anchor[1], LAMBDA child :
    IF child.key > node.key
    THEN [anchor |-> Some([node EXCEPT !.key = child.key,
                                       !.children[dir] = Some([child EXCEPT !.key = node.key])]),
          panic |-> FALSE]
    ELSE [anchor |-> Some([node EXCEPT !.children[dir] = r.anchor]),
          panic |-> FALSE]))))

\* the heap after the call, the returned value and whether it panicked
HeapRet(new_root, new_size, ret, panic) ==
    [heap |-> [root |-> new_root, size |-> new_size], ret |-> ret, panic |-> panic]

Heap_insert(self, key) ==
    Bind(self.size + 1, LAMBDA size :
    Bind(Heap_insert_aux(self.root, key, format_b(size), 1), LAMBDA r :
        HeapRet(r.anchor, size, None,
                r.panic \/ ~Heap_check([root |-> r.anchor, size |-> size]))))

Heap_peek(self) ==
    IF self.root = None THEN None ELSE Some(self.root[1].key)

\* the node after the call, the key taken out and whether it panicked
RECURSIVE Heap_last_key(_, _, _)
Heap_last_key(node, path, depth) ==
    Bind(Heap_dir(path, depth), LAMBDA dir :
    IF dir = 0 \/ node.children[dir] = None
    THEN [node |-> node, key |-> 0, panic |-> TRUE]
    ELSE
    Bind(node.children[dir][1], LAMBDA child :
    IF depth = Len(path) - 1
    THEN [node |-> [node EXCEPT !.children[dir] = None],
          key |-> child.key,
          panic |-> child.children[1] # None \/ child.children[2] # None]
    ELSE Bind(Heap_last_key(child, path, depth + 1), LAMBDA r :
             [node |-> [node EXCEPT !.children[dir] = Some(r.node)],
              key |-> r.key, panic |-> r.panic])))

\* biggest_dir after the loop over [0, 1], as a child index; 3 for the
\* source's 2
Heap_biggest_dir(node) ==
    Bind(IF node.children[1] # None /\ node.children[1][1].key > node.key
         THEN 1 ELSE 3, LAMBDA first :
    Bind(IF first = 1 THEN node.children[1][1].key ELSE node.key, LAMBDA biggest :
        IF node.children[2] # None /\ node.children[2][1].key > biggest
        THEN 2 ELSE first))

RECURSIVE Heap_bubble_down(_)
Heap_bubble_down(node) ==
    Bind(Heap_biggest_dir(node), LAMBDA biggest_dir :
    IF biggest_dir = 3 THEN node
    ELSE
    Bind(node.children[biggest_dir][1], LAMBDA child :
        [node EXCEPT !.key = child.key,
                     !.children[biggest_dir] =
                         Some(Heap_bubble_down([child EXCEPT !.key = node.key]))]))

Heap_pop(self) ==
    IF self.root = None THEN HeapRet(self.root, self.size, None, FALSE)
    ELSE
    Bind(self.root[1], LAMBDA node :
    IF self.size = 1
    THEN HeapRet(None, 0, Some(node.key), ~Heap_check([root |-> None, size |-> 0]))
    ELSE
    Bind(Heap_last_key(node, format_b(self.size), 1), LAMBDA lk :
    IF lk.panic \/ self.size = 0
    THEN HeapRet(Some(lk.node), self.size - 1, None, TRUE)
    ELSE
    Bind(Some(Heap_bubble_down([lk.node EXCEPT !.key = lk.key])), LAMBDA new_root :
        HeapRet(new_root, self.size - 1, Some(node.key),
                ~Heap_check([root |-> new_root, size |-> self.size - 1])))))

----------------------------------------------------------------------------
\* src/recursive_heap.rs: RecursiveHeap

Node_new(key) == [key |-> key, children |-> <<None, None>>]

RecursiveHeap_new == [root |-> None, size |-> 0]

\* the lowest w bits of n in reverse order
RECURSIVE reverse_bits_aux(_, _)
reverse_bits_aux(n, w) ==
    IF w = 0 THEN 0 ELSE (n % 2) * 2^(w - 1) + reverse_bits_aux(n \div 2, w - 1)

reverse_bits(n) == reverse_bits_aux(n, UsizeBits)

RECURSIVE bit_length(_)
bit_length(n) == IF n = 0 THEN 0 ELSE 1 + bit_length(n \div 2)

leading_zeros(n) == UsizeBits - bit_length(n)

\* binary_path_to giving the bits of index + 1 below its leading 1 as they
\* stand, not reversed
binary_path_to_unreversed(index) == (index + 1) - 2^(bit_length(index + 1) - 1)

\* index += 1; (index.reverse_bits() >> index.leading_zeros()) / 2
binary_path_to(index) ==
    ((reverse_bits(index + 1) \div 2^leading_zeros(index + 1)) \div 2)

RECURSIVE RecursiveHeap_check_aux(_, _)
RecursiveHeap_check_aux(anchor, parent_key) ==
    IF anchor = None THEN [count |-> 0, ok |-> TRUE]
    ELSE
    Bind(anchor[1], LAMBDA node :
    Bind(RecursiveHeap_check_aux(node.children[1], Some(node.key)), LAMBDA l :
    Bind(RecursiveHeap_check_aux(node.children[2], Some(node.key)), LAMBDA r :
        [count |-> 1 + l.count + r.count,
         ok |-> /\ (parent_key # None) => (node.key < parent_key[1])
                /\ (node.children[1] = None) => (node.children[2] = None)
                /\ l.ok
                /\ r.ok])))

RecursiveHeap_check(self) ==
    Bind(RecursiveHeap_check_aux(self.root, None), LAMBDA r :
        r.ok /\ self.size = r.count)

RECURSIVE bubble_up(_, _, _)
bubble_up(anchor, key, path) ==
    IF anchor = None THEN [anchor |-> Some(Node_new(key)), panic |-> FALSE]
    ELSE
    Bind(anchor[1], LAMBDA node :
    Bind((path % 2) + 1, LAMBDA dir :
    Bind(bubble_up(node.children[dir], key, path \div 2), LAMBDA r :
    IF r.panic \/ r.anchor = None
    THEN [anchor |-> Some([node EXCEPT !.children[dir] = r.anchor]), panic |-> TRUE]
    ELSE
    Bind(r.anchor[1], LAMBDA child :
    IF child.key > node.key
    THEN [anchor |-> Some([node EXCEPT !.key = child.key,
                                       !.children[dir] = Some([child EXCEPT !.key = node.key])]),
          panic |-> FALSE]
    ELSE [anchor |-> Some([node EXCEPT !.children[dir] = r.anchor]),
          panic |-> FALSE]))))

RecursiveHeap_push(self, key) ==
    Bind(bubble_up(self.root, key, binary_path_to(self.size)), LAMBDA r :
        HeapRet(r.anchor, self.size + 1, None,
                r.panic \/ ~RecursiveHeap_check([root |-> r.anchor,
                                                 size |-> self.size + 1])))

RecursiveHeap_peek(self) ==
    IF self.root = None THEN None ELSE Some(self.root[1].key)

RECURSIVE RecursiveHeap_last_key(_, _)
RecursiveHeap_last_key(node, path) ==
    Bind((path % 2) + 1, LAMBDA dir :
    IF node.children[dir] = None
    THEN [node |-> node, key |-> 0, panic |-> TRUE]
    ELSE
    Bind(node.children[dir][1], LAMBDA child :
    IF child.children[1] = None
    THEN [node |-> [node EXCEPT !.children[dir] = None],
          key |-> child.key, panic |-> FALSE]
    ELSE Bind(RecursiveHeap_last_key(child, path \div 2), LAMBDA r :
             [node |-> [node EXCEPT !.children[dir] = Some(r.node)],
              key |-> r.key, panic |-> r.panic])))

RecursiveHeap_biggest_dir(node) ==
    Bind(IF node.children[1] # None /\ node.children[1][1].key > node.key
         THEN 1 ELSE 3, LAMBDA first :
    Bind(IF first = 1 THEN node.children[1][1].key ELSE node.key, LAMBDA biggest :
        IF node.children[2] # None /\ node.children[2][1].key > biggest
        THEN 2 ELSE first))

RECURSIVE RecursiveHeap_bubble_down(_)
RecursiveHeap_bubble_down(node) ==
    Bind(RecursiveHeap_biggest_dir(node), LAMBDA biggest_dir :
    IF biggest_dir = 3 THEN node
    ELSE
    Bind(node.children[biggest_dir][1], LAMBDA child :
        [node EXCEPT !.key = child.key,
                     !.children[biggest_dir] =
                         Some(RecursiveHeap_bubble_down([child EXCEPT !.key = node.key]))]))

RecursiveHeap_pop(self) ==
    IF self.root = None THEN HeapRet(self.root, self.size, None, FALSE)
    ELSE
    Bind(self.root[1], LAMBDA node :
    IF self.size = 1
    THEN HeapRet(None, 0, Some(node.key),
                 ~RecursiveHeap_check([root |-> None, size |-> 0]))
    ELSE IF self.size = 0
    THEN HeapRet(self.root, self.size, None, TRUE)
    ELSE
    Bind(RecursiveHeap_last_key(node, binary_path_to(self.size - 1)), LAMBDA lk :
    IF lk.panic
    THEN HeapRet(Some(lk.node), self.size - 1, None, TRUE)
    ELSE
    Bind(Some(RecursiveHeap_bubble_down([lk.node EXCEPT !.key = lk.key])),
         LAMBDA new_root :
        HeapRet(new_root, self.size - 1, Some(node.key),
                ~RecursiveHeap_check([root |-> new_root, size |-> self.size - 1])))))

----------------------------------------------------------------------------
\* The client of a heap

\* key put into a sequence sorted greatest first
RECURSIVE InsertDesc(_, _)
InsertDesc(seq, key) ==
    IF seq = <<>> THEN <<key>>
    ELSE IF key >= Head(seq) THEN <<key>> \o seq
    ELSE <<Head(seq)>> \o InsertDesc(Tail(seq), key)

\* The arguments binary_path_to is called with when called alone: the
\* smallest ones and the greatest ones for which index + 1 is a usize
PathIndexes ==
    (0..MaxPathIndex) \cup ((2^UsizeBits - 2 - MaxPathIndex)..(2^UsizeBits - 2))

\* Heap::new() or RecursiveHeap::new(), or an argument for binary_path_to
HeapInit ==
    /\ hp_kind \in {"Heap", "RecursiveHeap", "binary_path_to"}
    /\ heap = (IF hp_kind = "Heap" THEN Heap_new ELSE RecursiveHeap_new)
    /\ hp_ref = <<>>
    /\ hp_last = NoHeapCall
    /\ hp_panicked = FALSE
    /\ bp_index \in (IF hp_kind = "binary_path_to" THEN PathIndexes ELSE {0})
    /\ bp_ret = None

----------------------------------------------------------------------------
\* SpecHeap: the client of a Heap or a RecursiveHeap

InitHeap == AvlInit /\ HeapInit /\ VecIdle /\ TreapIdle /\ BstIdle

\* The client is between two calls on the heap.
HeapReady ==
    /\ hp_kind \in {"Heap", "RecursiveHeap"}
    /\ ~hp_panicked
    /\ hp_last = NoHeapCall

\* the greatest key of the reference, as peek and pop should return it
HeapExpected == IF hp_ref = <<>> THEN None ELSE Some(Head(hp_ref))

\* the heap and the panic flag after a call that gave r
HeapReturned(r) ==
    /\ heap' = r.heap
    /\ hp_panicked' = r.panic

\* the same after a pop, with what it returned
HeapPopped(r) ==
    /\ HeapReturned(r)
    /\ hp_last' = [op |-> "pop", key |-> 0, ret |-> r.ret, expected |-> HeapExpected]

HeapInsert(key) ==
    /\ HeapReady /\ hp_kind = "Heap"
    /\ heap.size < MaxHeapSize
    /\ HeapReturned(Heap_insert(heap, key))
    /\ hp_ref' = InsertDesc(hp_ref, key)
    /\ hp_last' = [op |-> "insert", key |-> key, ret |-> None, expected |-> None]
    /\ UNCHANGED <<hp_kind, bp_index, bp_ret, avl_vars, vec_vars, treap_vars,
                   bst_vars>>

HeapPeek ==
    /\ HeapReady /\ hp_kind = "Heap"
    /\ hp_last' = [op |-> "peek", key |-> 0, ret |-> Heap_peek(heap),
                   expected |-> HeapExpected]
    /\ UNCHANGED <<hp_kind, heap, hp_ref, hp_panicked, bp_index, bp_ret, avl_vars, vec_vars,
                   treap_vars, bst_vars>>

HeapPop ==
    /\ HeapReady /\ hp_kind = "Heap"
    /\ HeapPopped(Heap_pop(heap))
    /\ hp_ref' = (IF hp_ref = <<>> THEN <<>> ELSE Tail(hp_ref))
    /\ UNCHANGED <<hp_kind, bp_index, bp_ret, avl_vars, vec_vars, treap_vars,
                   bst_vars>>

RecursiveHeapPush(key) ==
    /\ HeapReady /\ hp_kind = "RecursiveHeap"
    /\ heap.size < MaxHeapSize
    /\ HeapReturned(RecursiveHeap_push(heap, key))
    /\ hp_ref' = InsertDesc(hp_ref, key)
    /\ hp_last' = [op |-> "push", key |-> key, ret |-> None, expected |-> None]
    /\ UNCHANGED <<hp_kind, bp_index, bp_ret, avl_vars, vec_vars, treap_vars,
                   bst_vars>>

RecursiveHeapPeek ==
    /\ HeapReady /\ hp_kind = "RecursiveHeap"
    /\ hp_last' = [op |-> "peek", key |-> 0, ret |-> RecursiveHeap_peek(heap),
                   expected |-> HeapExpected]
    /\ UNCHANGED <<hp_kind, heap, hp_ref, hp_panicked, bp_index, bp_ret, avl_vars, vec_vars,
                   treap_vars, bst_vars>>

RecursiveHeapPop ==
    /\ HeapReady /\ hp_kind = "RecursiveHeap"
    /\ HeapPopped(RecursiveHeap_pop(heap))
    /\ hp_ref' = (IF hp_ref = <<>> THEN <<>> ELSE Tail(hp_ref))
    /\ UNCHANGED <<hp_kind, bp_index, bp_ret, avl_vars, vec_vars, treap_vars,
                   bst_vars>>

\* the call has returned and the client goes on
HeapReturn ==
    /\ hp_kind # "none" /\ ~hp_panicked /\ hp_last # NoHeapCall
    /\ hp_last' = NoHeapCall
    /\ UNCHANGED <<hp_kind, heap, hp_ref, hp_panicked, bp_index, bp_ret, avl_vars, vec_vars,
                   treap_vars, bst_vars>>

\* binary_path_to(bp_index)
BinaryPathTo ==
    /\ hp_kind = "binary_path_to" /\ bp_ret = None
    /\ bp_ret' = Some(binary_path_to(bp_index))
    /\ UNCHANGED <<hp_kind, heap, hp_ref, hp_last, hp_panicked, bp_index, avl_vars,
                   vec_vars, treap_vars, bst_vars>>

NextHeap ==
    \/ \E key \in HeapKeys : HeapInsert(key)
    \/ HeapPeek
    \/ HeapPop
    \/ \E key \in HeapKeys : RecursiveHeapPush(key)
    \/ RecursiveHeapPeek
    \/ RecursiveHeapPop
    \/ HeapReturn
    \/ BinaryPathTo

SpecHeap == InitHeap /\ [][NextHeap]_vars

----------------------------------------------------------------------------
\* the keys stored in a heap
RECURSIVE HeapKeyCount(_, _)
HeapKeyCount(anchor, key) ==
    IF anchor = None THEN 0
    ELSE (IF anchor[1].key = key THEN 1 ELSE 0)
         + HeapKeyCount(anchor[1].children[1], key)
         + HeapKeyCount(anchor[1].children[2], key)

\* how many times key occurs in a sequence
RECURSIVE SeqCount(_, _)
SeqCount(seq, key) ==
    IF seq = <<>> THEN 0
    ELSE (IF Head(seq) = key THEN 1 ELSE 0) + SeqCount(Tail(seq), key)

\* what pop returns when called until it returns None (at most n times)
RECURSIVE PopAll(_, _)
PopAll(self, n) ==
    LET r == IF hp_kind = "Heap" THEN Heap_pop(self) ELSE RecursiveHeap_pop(self)
    IN IF n = 0 \/ r.panic \/ r.ret = None THEN <<>>
       ELSE <<r.ret[1]>> \o PopAll(r.heap, n - 1)

\* C11: every insert/push returns; pop and peek return the greatest key
\* inserted and not yet popped (None when there is none), pop removing one
\* occurrence of it, so that the heap stores exactly the keys inserted and
\* not yet popped and popping until None yields them greatest first.
C11_PopGreatest ==
    /\ ~hp_panicked
    /\ (hp_last.op \in {"pop", "peek"}) => (hp_last.ret = hp_last.expected)
    /\ \A key \in HeapKeys : HeapKeyCount(heap.root, key) = SeqCount(hp_ref, key)
    /\ PopAll(heap, MaxHeapSize + 1) = hp_ref

\* C12: after every insert/push and pop, equal keys included, every
\* non-root node's key is strictly less than its parent's, a node without a
\* left child has no right child, and size is the number of nodes.
C12_CheckHolds ==
    /\ \A node \in Nodes(heap.root) :
          /\ \A i \in 1..2 : (node.children[i] # None)
                                => (node.children[i][1].key < node.key)
          /\ (node.children[1] = None) => (node.children[2] = None)
    /\ heap.size = NodeCount(heap.root)

----------------------------------------------------------------------------
\* src/impl_treap.rs: ImplTreap

\* How many elements an ImplTreap holds at most, the values it is given and
\* the priorities rand::random() draws.
MaxVecSize == 4
MaxValue == 2
MaxPriority == 3
MaxInsertSize == 3
Values == 1..MaxValue
Priorities == 1..MaxPriority

\* usize arithmetic: the wrapped result; a debug build panics when the
\* result was out of range (ovf in the results below)
wrapping_sub(a, b) == (a - b) % 2^UsizeBits
wrapping_add(a, b) == (a + b) % 2^UsizeBits

\* priority is what rand::random() returned
ImplTreapNode_new(value, priority) ==
    [value |-> value, priority |-> priority, count |-> 1, children |-> <<None, None>>]

ImplTreap_new == [root |-> None, size |-> 0]

\* child.count, or 0 for an empty slot
count_of(anchor) == IF anchor = None THEN 0 ELSE anchor[1].count

\* check's aux: the number of nodes in the subtree, and whether every
\* assertion passed. parent_priority is an Option<u64>.
RECURSIVE ImplTreap_check_aux(_, _)
ImplTreap_check_aux(anchor, parent_priority) ==
    IF anchor = None THEN [count |-> 0, ok |-> TRUE]
    ELSE
    Bind(anchor[1], LAMBDA node :
    Bind(ImplTreap_check_aux(node.children[1], Some(node.priority)), LAMBDA l :
    Bind(ImplTreap_check_aux(node.children[2], Some(node.priority)), LAMBDA r :
    Bind(l.count + 1 + r.count, LAMBDA count :
        [count |-> count,
         ok |-> /\ (parent_priority # None) => (node.priority <= parent_priority[1])
                /\ l.ok
                /\ r.ok
                /\ count = node.count]))))

ImplTreap_check(self) == ImplTreap_check_aux(self.root, None).ok

\* The result of an operator working on a slot: the slot afterwards, the
\* returned value, whether the call panicked and whether a usize operation
\* went out of range.
VecRet(anchor, ret, panic, ovf) ==
    [anchor |-> anchor, ret |-> ret, panic |-> panic, ovf |-> ovf]

\* rotate without the updates of count
ImplTreap_rotate_no_count(anchor, dir) ==
    IF anchor = None \/ anchor[1].children[dir] = None
    THEN VecRet(anchor, FALSE, TRUE, FALSE)
    ELSE
    Bind(anchor[1], LAMBDA old_parent :
    Bind(old_parent.children[dir][1], LAMBDA new_parent :
        VecRet(Some([new_parent EXCEPT !.children[3 - dir] =
                         Some([old_parent EXCEPT !.children[dir] =
                                                     new_parent.children[3 - dir]])]),
               FALSE, ~(new_parent.priority > old_parent.priority), FALSE)))

\* dir is 1 or 2 here, the source's 0 or 1
ImplTreap_rotate(anchor, dir) ==
    IF anchor = None \/ anchor[1].children[dir] = None
    THEN VecRet(anchor, FALSE, TRUE, FALSE)
    ELSE
    Bind(anchor[1], LAMBDA old_parent :
    Bind(old_parent.children[dir][1], LAMBDA new_parent :
    Bind(count_of(new_parent.children[3 - dir]), LAMBDA grand_child_count :
    Bind(wrapping_add(wrapping_sub(old_parent.count, new_parent.count),
                      grand_child_count), LAMBDA old_count :
    Bind(wrapping_add(wrapping_sub(new_parent.count, grand_child_count),
                      old_count), LAMBDA new_count :
        VecRet(Some([new_parent EXCEPT
                        !.count = new_count,
                        !.children[3 - dir] =
                            Some([old_parent EXCEPT
                                     !.count = old_count,
                                     !.children[dir] = new_parent.children[3 - dir]])]),
               FALSE,
               ~(new_parent.priority > old_parent.priority),
               \/ old_parent.count < new_parent.count
               \/ new_parent.count < grand_child_count
               \/ old_parent.count - new_parent.count + grand_child_count >= 2^UsizeBits
               \/ new_parent.count - grand_child_count + old_count >= 2^UsizeBits))))))

RECURSIVE ImplTreap_insert_aux(_, _, _, _)
ImplTreap_insert_aux(anchor, index, value, priority) ==
    Bind(IF anchor = None THEN 0 ELSE count_of(anchor[1].children[1]),
         LAMBDA current_index :
    IF index = current_index
    THEN IF anchor = None
         THEN VecRet(Some(ImplTreapNode_new(value, priority)), TRUE, FALSE, FALSE)
         ELSE VecRet(Some([ImplTreapNode_new(value, priority) EXCEPT
                              !.children[1] = anchor[1].children[1],
                              !.children[2] = Some([anchor[1] EXCEPT !.children[1] = None])]),
                     TRUE, FALSE, FALSE)
    ELSE IF anchor = None THEN VecRet(anchor, FALSE, TRUE, FALSE)
    ELSE
    Bind(anchor[1], LAMBDA node :
    Bind(IF index < current_index THEN 1 ELSE 2, LAMBDA dir :
    Bind(ImplTreap_insert_aux(node.children[dir],
                              IF dir = 1 THEN index ELSE index - (current_index + 1),
                              value, priority), LAMBDA r :
    Bind([node EXCEPT !.count = wrapping_add(node.count, 1),
                      !.children[dir] = r.anchor], LAMBDA node2 :
    Bind(r.ovf \/ node.count + 1 >= 2^UsizeBits, LAMBDA ovf :
    IF r.panic THEN VecRet(Some(node2), FALSE, TRUE, ovf)
    ELSE IF ~r.ret THEN VecRet(Some(node2), FALSE, FALSE, ovf)
    ELSE IF r.anchor = None THEN VecRet(Some(node2), FALSE, TRUE, ovf)
    ELSE IF r.anchor[1].priority > node.priority
    THEN Bind(ImplTreap_rotate(Some(node2), dir), LAMBDA rot :
             VecRet(rot.anchor, TRUE, rot.panic, ovf \/ rot.ovf))
    ELSE VecRet(Some(node2), FALSE, FALSE, ovf)))))))

\* the ImplTreap after the call, the returned value, whether the call
\* panicked and whether a usize operation went out of range
ImplTreapRet(new_root, new_size, ret, panic, ovf) ==
    [itreap |-> [root |-> new_root, size |-> new_size],
     ret |-> ret, panic |-> panic, ovf |-> ovf]

ImplTreap_insert(self, index, value, priority) ==
    Bind(ImplTreap_insert_aux(self.root, index, value, priority), LAMBDA r :
        ImplTreapRet(r.anchor, wrapping_add(self.size, 1), None, r.panic,
                     r.ovf \/ self.size + 1 >= 2^UsizeBits))

ImplTreap_push(self, value, priority) ==
    ImplTreap_insert(self, self.size, value, priority)

\* the detached leftmost node (ret) and node as the walk leaves it
RECURSIVE ImplTreap_leftmost(_)
ImplTreap_leftmost(node) ==
    IF node.children[1] = None
    THEN [ret |-> node, node |-> node, panic |-> TRUE, ovf |-> FALSE]
    ELSE
    Bind(node.children[1][1], LAMBDA child :
    IF child.children[1] # None
    THEN Bind(ImplTreap_leftmost(child), LAMBDA r :
             [ret |-> r.ret,
              node |-> [node EXCEPT !.count = wrapping_sub(node.count, 1),
                                    !.children[1] = Some(r.node)],
              panic |-> r.panic,
              ovf |-> r.ovf \/ node.count < 1])
    ELSE [ret |-> [child EXCEPT !.children[2] = None],
          node |-> [node EXCEPT !.count = wrapping_sub(node.count, 1),
                                !.children[1] = child.children[2]],
          panic |-> FALSE,
          ovf |-> node.count < 1])

\* max_priority_dir after the two tests, as a child index; 3 for the
\* source's 2
ImplTreap_max_priority_dir(node) ==
    Bind(IF node.children[1] # None /\ node.children[1][1].priority > node.priority
         THEN 1 ELSE 3, LAMBDA first :
    Bind(IF first = 1 THEN node.children[1][1].priority ELSE node.priority,
         LAMBDA max_priority :
        IF node.children[2] # None /\ node.children[2][1].priority > max_priority
        THEN 2 ELSE first))

\* one turn of the loop, then the loop on the slot the old root went to
RECURSIVE ImplTreap_bubble_down(_)
ImplTreap_bubble_down(anchor) ==
    IF anchor = None THEN VecRet(anchor, FALSE, TRUE, FALSE)
    ELSE
    Bind(ImplTreap_max_priority_dir(anchor[1]), LAMBDA dir :
    IF dir = 3 THEN VecRet(anchor, FALSE, FALSE, FALSE)
    ELSE
    Bind(ImplTreap_rotate(anchor, dir), LAMBDA rot :
    IF rot.panic THEN rot
    ELSE
    Bind(ImplTreap_bubble_down(rot.anchor[1].children[3 - dir]), LAMBDA r :
        VecRet(Some([rot.anchor[1] EXCEPT !.children[3 - dir] = r.anchor]),
               FALSE, r.panic, rot.ovf \/ r.ovf))))

\* the arm of aux for the node at the index: what replaces it in the slot
ImplTreap_remove_found(node) ==
    Bind(node.children[1], LAMBDA left :
    Bind(node.children[2], LAMBDA right :
    CASE left = None /\ right = None -> VecRet(None, Some(node.value), FALSE, FALSE)
      [] left # None /\ right = None -> VecRet(left, Some(node.value), FALSE, FALSE)
      [] left = None /\ right # None -> VecRet(right, Some(node.value), FALSE, FALSE)
      [] OTHER ->
            IF right[1].children[1] = None
            THEN Bind(ImplTreap_bubble_down(
                          Some([right[1] EXCEPT !.children[1] = left,
                                                !.count = wrapping_sub(node.count, 1)])),
                      LAMBDA r :
                     VecRet(r.anchor, Some(node.value), r.panic,
                            r.ovf \/ node.count < 1))
            ELSE
            Bind(ImplTreap_leftmost(right[1]), LAMBDA lm :
            IF lm.panic THEN VecRet(None, None, TRUE, lm.ovf)
            ELSE
            Bind(ImplTreap_bubble_down(
                     Some([lm.ret EXCEPT !.count = wrapping_sub(node.count, 1),
                                         !.children[1] = left,
                                         !.children[2] = Some(lm.node)])),
                 LAMBDA r :
                VecRet(r.anchor, Some(node.value), r.panic,
                       lm.ovf \/ r.ovf \/ node.count < 1)))))

RECURSIVE ImplTreap_remove_aux(_, _)
ImplTreap_remove_aux(anchor, index) ==
    IF anchor = None THEN VecRet(anchor, None, TRUE, FALSE)
    ELSE
    Bind(anchor[1], LAMBDA node :
    Bind(count_of(node.children[1]), LAMBDA current_index :
    IF index = current_index THEN ImplTreap_remove_found(node)
    ELSE
    Bind(IF index < current_index THEN 1 ELSE 2, LAMBDA dir :
    Bind(ImplTreap_remove_aux(node.children[dir],
                              IF dir = 1 THEN index ELSE index - (current_index + 1)),
         LAMBDA r :
        VecRet(Some([node EXCEPT !.count = wrapping_sub(node.count, 1),
                                 !.children[dir] = r.anchor]),
               r.ret, r.panic, r.ovf \/ node.count < 1)))))

ImplTreap_remove(self, index) ==
    IF ~(index < self.size)
    THEN ImplTreapRet(self.root, self.size, None, TRUE, FALSE)
    ELSE Bind(ImplTreap_remove_aux(self.root, index), LAMBDA r :
             ImplTreapRet(r.anchor, self.size - 1, r.ret, r.panic, r.ovf))

ImplTreap_pop(self) ==
    IF self.size = 0
    THEN ImplTreapRet(self.root, self.size, None, FALSE, FALSE)
    ELSE ImplTreap_remove(self, self.size - 1)

\* IterRef::new
ImplTreap_iter(self) ==
    IF self.root = None THEN <<>> ELSE << <<"Unexplored", self.root[1]>> >>

\* IterRef::next: the stack afterwards and the returned item
RECURSIVE ImplTreap_IterRef_next(_)
ImplTreap_IterRef_next(stack) ==
    IF stack = <<>> THEN [stack |-> stack, item |-> None]
    ELSE LET state == stack[Len(stack)][1]
             node == stack[Len(stack)][2]
             rest == SubSeq(stack, 1, Len(stack) - 1)
         IN IF state = "Unexplored"
            THEN ImplTreap_IterRef_next(
                     Append(rest, <<"LeftYielded", node>>)
                     \o (IF node.children[1] # None
                         THEN << <<"Unexplored", node.children[1][1]>> >> ELSE <<>>))
            ELSE [stack |-> rest \o (IF node.children[2] # None
                                     THEN << <<"Unexplored", node.children[2][1]>> >>
                                     ELSE <<>>),
                  item |-> Some(node.value)]

\* iter().copied().collect(): the items next() returns until its first None
RECURSIVE ImplTreap_collect(_)
ImplTreap_collect(stack) ==
    Bind(ImplTreap_IterRef_next(stack), LAMBDA r :
        IF r.item = None THEN <<>> ELSE <<r.item[1]>> \o ImplTreap_collect(r.stack))

----------------------------------------------------------------------------
\* SpecVec and SpecImplTreap: the client of an ImplTreap

\* ImplTreap::new()
VecInit ==
    /\ itreap = ImplTreap_new
    /\ vec_ref = <<>>
    /\ vec_last = NoVecCall
    /\ vec_panicked = FALSE

\* A debug build: a usize operation out of range panics. A run in which no
\* such operation occurs is also a run of a release build.
InitVec ==
    /\ AvlInit /\ HeapIdle /\ VecInit /\ TreapIdle /\ BstIdle
    /\ vec_build = "debug"

\* a debug or a release build
InitImplTreap ==
    /\ AvlInit /\ HeapIdle /\ VecInit /\ TreapIdle /\ BstIdle
    /\ vec_build \in {"debug", "release"}

\* The client is between two calls on the ImplTreap.
VecReady == vec_build # "none" /\ ~vec_panicked /\ vec_last = NoVecCall

\* seq with value put at position index (0-based) and with position index
\* taken out
InsertAt(seq, index, value) ==
    SubSeq(seq, 1, index) \o <<value>> \o SubSeq(seq, index + 1, Len(seq))
RemoveAt(seq, index) ==
    SubSeq(seq, 1, index) \o SubSeq(seq, index + 2, Len(seq))

\* the ImplTreap and the panic flag after a call that gave r
VecReturned(r) ==
    /\ itreap' = r.itreap
    /\ vec_panicked' = (r.panic \/ (vec_build = "debug" /\ r.ovf))

\* the same after a remove or a pop, with what it returned
VecRemoved(r, op, index, expected) ==
    /\ VecReturned(r)
    /\ vec_last' = [op |-> op, index |-> index, value |-> 0, ret |-> r.ret,
                    expected |-> expected]

VecPush(value, priority) ==
    /\ VecReady
    /\ itreap.size < MaxVecSize
    /\ VecReturned(ImplTreap_push(itreap, value, priority))
    /\ vec_ref' = Append(vec_ref, value)
    /\ vec_last' = [op |-> "push", index |-> itreap.size, value |-> value,
                    ret |-> None, expected |-> None]
    /\ UNCHANGED <<vec_build, avl_vars, heap_vars, treap_vars, bst_vars>>

\* on a list of fewer than MaxInsertSize elements, and while no count has
\* grown beyond MaxInsertSize
VecInsert(index, value, priority) ==
    /\ VecReady
    /\ itreap.size < MaxInsertSize
    /\ \A node \in Nodes(itreap.root) : node.count <= MaxInsertSize
    /\ index <= itreap.size
    /\ VecReturned(ImplTreap_insert(itreap, index, value, priority))
    /\ vec_ref' = InsertAt(vec_ref, index, value)
    /\ vec_last' = [op |-> "insert", index |-> index, value |-> value,
                    ret |-> None, expected |-> None]
    /\ UNCHANGED <<vec_build, avl_vars, heap_vars, treap_vars, bst_vars>>

VecRemove(index) ==
    /\ VecReady
    /\ index < itreap.size
    /\ VecRemoved(ImplTreap_remove(itreap, index), "remove", index,
                  Some(vec_ref[index + 1]))
    /\ vec_ref' = RemoveAt(vec_ref, index)
    /\ UNCHANGED <<vec_build, avl_vars, heap_vars, treap_vars, bst_vars>>

VecPop ==
    /\ VecReady
    /\ VecRemoved(ImplTreap_pop(itreap), "pop", 0,
                  IF vec_ref = <<>> THEN None ELSE Some(vec_ref[Len(vec_ref)]))
    /\ vec_ref' = SubSeq(vec_ref, 1, Len(vec_ref) - 1)
    /\ UNCHANGED <<vec_build, avl_vars, heap_vars, treap_vars, bst_vars>>

\* treap.iter().copied().collect()
VecIter ==
    /\ VecReady
    /\ vec_last' = [op |-> "iter", index |-> 0, value |-> 0,
                    ret |-> ImplTreap_collect(ImplTreap_iter(itreap)),
                    expected |-> vec_ref]
    /\ UNCHANGED <<itreap, vec_ref, vec_panicked, vec_build, avl_vars, heap_vars,
                   treap_vars, bst_vars>>

\* the call has returned and the client goes on
VecReturn ==
    /\ vec_build # "none" /\ ~vec_panicked /\ vec_last # NoVecCall
    /\ vec_last' = NoVecCall
    /\ UNCHANGED <<itreap, vec_ref, vec_panicked, vec_build, avl_vars, heap_vars,
                   treap_vars, bst_vars>>

\* push, remove, pop and iter only
NextVec ==
    \/ \E value \in Values, priority \in Priorities : VecPush(value, priority)
    \/ \E index \in 0..(MaxVecSize - 1) : VecRemove(index)
    \/ VecPop
    \/ VecIter
    \/ VecReturn

SpecVec == InitVec /\ [][NextVec]_vars

\* insert at any index, which at index = size is what push does, with
\* remove, pop and iter
NextImplTreap ==
    \/ \E index \in 0..MaxInsertSize, value \in Values, priority \in Priorities :
           VecInsert(index, value, priority)
    \/ \E index \in 0..(MaxVecSize - 1) : VecRemove(index)
    \/ VecPop
    \/ VecIter
    \/ VecReturn

SpecImplTreap == InitImplTreap /\ [][NextImplTreap]_vars

----------------------------------------------------------------------------
\* the nodes of an ImplTreap whose count is the number of nodes below and
\* including them
CountsRight(anchor) ==
    \A node \in Nodes(anchor) : node.count = NodeCount(Some(node))

\* C13: under push, remove(i) with i < size, pop and iter, whatever the
\* priorities drawn: no call panics, iter() yields the reference list,
\* remove(i) returns the element that was at position i, and pop returns
\* the last element, or None when the size is 0.
C13_VecRefinement ==
    /\ ~vec_panicked
    /\ ImplTreap_collect(ImplTreap_iter(itreap)) = vec_ref
    /\ itreap.size = Len(vec_ref)
    /\ (vec_last.op \in {"remove", "pop", "iter"}) => (vec_last.ret = vec_last.expected)

\* a remove from inside a list of four of an element that differs from
\* both its neighbours, leaving a tree whose root has two children
C13_Witness ==
    /\ vec_last.op = "remove" /\ vec_last.index = 1
    /\ Len(vec_ref) = 3
    /\ vec_last.ret # None
    /\ vec_ref[1] # vec_last.ret[1] /\ vec_ref[2] # vec_last.ret[1]
    /\ itreap.root[1].children[1] # None /\ itreap.root[1].children[2] # None

\* C14: with insert(index, value) for any 0 <= index <= size among the
\* calls: no call panics (no unreachable!()), after an insert the iterated
\* sequence is the earlier one with value put at position index, and every
\* later remove(i) with i < size returns the element at position i.
C14_InsertAnywhere ==
    /\ ~vec_panicked
    /\ ImplTreap_collect(ImplTreap_iter(itreap)) = vec_ref
    /\ (vec_last.op = "insert") =>
          /\ vec_ref[vec_last.index + 1] = vec_last.value
          /\ ImplTreap_collect(ImplTreap_iter(itreap))[vec_last.index + 1] = vec_last.value
    /\ (vec_last.op = "remove") => (vec_last.ret = vec_last.expected)

----------------------------------------------------------------------------
\* treap.rs: a binary search tree on the keys that is a heap on priorities
\* drawn at random, one per node

MaxTreapKey == 4
MaxTreapPriority == 3
TreapKeys == 1..MaxTreapKey
TreapPriorities == 1..MaxTreapPriority

\* Node::new; priority is the value rand::random() gives
Treap_Node_new(key, priority) ==
    [key |-> key, priority |-> priority, children |-> <<None, None>>]

Treap_new == None

\* The result of an operator working on a slot: the slot afterwards, the
\* returned value and whether the call panicked.
TreapRet(anchor, ret, panic) == [anchor |-> anchor, ret |-> ret, panic |-> panic]

\* Treap::check::aux: no assertion fails
RECURSIVE Treap_check_aux(_, _, _, _)
Treap_check_aux(anchor, min_key, max_key, parent_priority) ==
    IF anchor = None THEN TRUE
    ELSE LET node == anchor[1] IN
         /\ (min_key # None) => (node.key > min_key[1])
         /\ (max_key # None) => (node.key < max_key[1])
         /\ (parent_priority # None) => (node.priority <= parent_priority[1])
         /\ Treap_check_aux(node.children[1], min_key, Some(node.key),
                            Some(node.priority))
         /\ Treap_check_aux(node.children[2], Some(node.key), max_key,
                            Some(node.priority))

Treap_check(self) == Treap_check_aux(self, None, None, None)

\* rotate that leaves the promoted child's inner subtree out
Treap_rotate_drop_grandchild(anchor, dir) ==
    IF anchor = None \/ anchor[1].children[dir] = None
    THEN TreapRet(anchor, FALSE, TRUE)
    ELSE
    Bind(anchor[1], LAMBDA parent :
    Bind(parent.children[dir][1], LAMBDA new_parent :
        TreapRet(Some([new_parent EXCEPT !.children[3 - dir] =
                           Some([parent EXCEPT !.children[dir] = None])]),
                 FALSE, ~(new_parent.priority > parent.priority))))

\* Treap::rotate; dir is 1 or 2 here, the source's 0 or 1
Treap_rotate(anchor, dir) ==
    IF anchor = None \/ anchor[1].children[dir] = None
    THEN TreapRet(anchor, FALSE, TRUE)
    ELSE
    Bind(anchor[1], LAMBDA parent :
    Bind(parent.children[dir][1], LAMBDA new_parent :
        TreapRet(Some([new_parent EXCEPT !.children[3 - dir] =
                           Some([parent EXCEPT !.children[dir] =
                                                   new_parent.children[3 - dir]])]),
                 FALSE, ~(new_parent.priority > parent.priority))))

\* Treap::insert::aux; ret is true when the heap order is to be looked at
RECURSIVE Treap_insert_aux(_, _, _)
Treap_insert_aux(anchor, key, priority) ==
    IF anchor = None
    THEN TreapRet(Some(Treap_Node_new(key, priority)), TRUE, FALSE)
    ELSE IF key = anchor[1].key THEN TreapRet(anchor, FALSE, FALSE)
    ELSE
    Bind(IF key < anchor[1].key THEN 1 ELSE 2, LAMBDA dir :
    Bind(Treap_insert_aux(anchor[1].children[dir], key, priority), LAMBDA sub :
    Bind(Some([anchor[1] EXCEPT !.children[dir] = sub.anchor]), LAMBDA slot :
        IF sub.panic THEN TreapRet(slot, FALSE, TRUE)
        ELSE IF ~sub.ret THEN TreapRet(slot, FALSE, FALSE)
        ELSE IF sub.anchor[1].priority > anchor[1].priority
        THEN Bind(Treap_rotate(slot, dir), LAMBDA r : TreapRet(r.anchor, TRUE, r.panic))
        ELSE TreapRet(slot, FALSE, FALSE))))

\* Treap::insert, with the check() that ends it
Treap_insert(self, key, priority) ==
    Bind(Treap_insert_aux(self, key, priority), LAMBDA r :
        TreapRet(r.anchor, FALSE, r.panic \/ ~Treap_check(r.anchor)))

\* Treap::contains
RECURSIVE Treap_contains(_, _)
Treap_contains(anchor, key) ==
    IF anchor = None THEN FALSE
    ELSE IF key < anchor[1].key THEN Treap_contains(anchor[1].children[1], key)
    ELSE IF key > anchor[1].key THEN Treap_contains(anchor[1].children[2], key)
    ELSE TRUE

\* Treap::remove::leftmost: the node taken out (ret) and node afterwards;
\* node has a left child
RECURSIVE Treap_leftmost(_)
Treap_leftmost(node) ==
    IF node.children[1][1].children[1] # None
    THEN Bind(Treap_leftmost(node.children[1][1]), LAMBDA r :
             [ret |-> r.ret,
              node |-> [node EXCEPT !.children[1] = Some(r.node)],
              panic |-> r.panic])
    ELSE Bind([node.children[1][1] EXCEPT !.children[2] = None], LAMBDA ret :
             [ret |-> ret,
              node |-> [node EXCEPT !.children[1] = node.children[1][1].children[2]],
              panic |-> ret.children[1] # None \/ ret.children[2] # None])

\* max_priority_dir only looking at the node's own priority for the right child
Treap_max_priority_dir_own(node) ==
    IF node.children[2] # None /\ node.children[2][1].priority > node.priority
    THEN 2
    ELSE IF node.children[1] # None /\ node.children[1][1].priority > node.priority
    THEN 1
    ELSE 0

\* the max_priority_dir that one turn of bubble_down's loop computes: 1 or
\* 2 for the source's 0 or 1, and 0 for the source's 2 (no child is above)
Treap_max_priority_dir(node) ==
    Bind(IF node.children[1] # None /\ node.children[1][1].priority > node.priority
         THEN node.children[1][1].priority ELSE node.priority, LAMBDA max_priority :
        IF node.children[2] # None /\ node.children[2][1].priority > max_priority
        THEN 2
        ELSE IF max_priority # node.priority THEN 1
        ELSE 0)

\* Treap::remove::bubble_down; anchor holds a node
RECURSIVE Treap_bubble_down(_)
Treap_bubble_down(anchor) ==
    Bind(Treap_max_priority_dir(anchor[1]), LAMBDA max_priority_dir :
        IF max_priority_dir = 0 THEN TreapRet(anchor, FALSE, FALSE)
        ELSE
        Bind(Treap_rotate(anchor, max_priority_dir), LAMBDA r :
            IF r.panic THEN r
            ELSE Bind(Treap_bubble_down(r.anchor[1].children[3 - max_priority_dir]),
                      LAMBDA below :
                     TreapRet(Some([r.anchor[1] EXCEPT
                                       !.children[3 - max_priority_dir] = below.anchor]),
                              FALSE, below.panic))))

\* Treap::remove::aux, the arm Ordering::Equal
Treap_remove_found(node) ==
    IF node.children[1] = None /\ node.children[2] = None
    THEN TreapRet(None, FALSE, FALSE)
    ELSE IF node.children[2] = None THEN TreapRet(node.children[1], FALSE, FALSE)
    ELSE IF node.children[1] = None THEN TreapRet(node.children[2], FALSE, FALSE)
    ELSE IF node.children[2][1].children[1] = None
    THEN Treap_bubble_down(
             Some([node.children[2][1] EXCEPT !.children[1] = node.children[1]]))
    ELSE Bind(Treap_leftmost(node.children[2][1]), LAMBDA l :
             IF l.panic THEN TreapRet(Some(node), FALSE, TRUE)
             ELSE Treap_bubble_down(
                      Some([l.ret EXCEPT !.children = <<node.children[1], Some(l.node)>>])))

\* Treap::remove::aux
RECURSIVE Treap_remove_aux(_, _)
Treap_remove_aux(anchor, key) ==
    IF anchor = None THEN TreapRet(anchor, FALSE, FALSE)
    ELSE IF key = anchor[1].key THEN Treap_remove_found(anchor[1])
    ELSE
    Bind(IF key < anchor[1].key THEN 1 ELSE 2, LAMBDA dir :
    Bind(Treap_remove_aux(anchor[1].children[dir], key), LAMBDA sub :
        TreapRet(Some([anchor[1] EXCEPT !.children[dir] = sub.anchor]), FALSE,
                 sub.panic)))

\* Treap::remove, with the check() that ends it
Treap_remove(self, key) ==
    Bind(Treap_remove_aux(self, key), LAMBDA r :
        TreapRet(r.anchor, FALSE, r.panic \/ ~Treap_check(r.anchor)))

\* IterRef::new: the stack holds pairs (explored, node)
Treap_iter(self) ==
    IF self = None THEN <<>> ELSE << <<FALSE, self[1]>> >>

\* IterRef::next: the stack afterwards and the returned item
RECURSIVE Treap_IterRef_next(_)
Treap_IterRef_next(stack) ==
    IF stack = <<>> THEN [stack |-> stack, item |-> None]
    ELSE LET explored == stack[Len(stack)][1]
             node == stack[Len(stack)][2]
             rest == SubSeq(stack, 1, Len(stack) - 1)
         IN IF explored
            THEN [stack |-> rest \o (IF node.children[2] # None
                                     THEN << <<FALSE, node.children[2][1]>> >>
                                     ELSE <<>>),
                  item |-> Some(node.key)]
            ELSE IF node.children[1] # None
            THEN Treap_IterRef_next(rest \o << <<TRUE, node>>,
                                               <<FALSE, node.children[1][1]>> >>)
            ELSE [stack |-> rest \o (IF node.children[2] # None
                                     THEN << <<FALSE, node.children[2][1]>> >>
                                     ELSE <<>>),
                  item |-> Some(node.key)]

\* tree.iter().copied().collect(), in the order of iteration
RECURSIVE Treap_collect(_)
Treap_collect(stack) ==
    Bind(Treap_IterRef_next(stack), LAMBDA r :
        IF r.item = None THEN <<>> ELSE <<r.item[1]>> \o Treap_collect(r.stack))

----------------------------------------------------------------------------
\* SpecTreap: two runs of the same client of a Treap. Both make the same
\* calls; each draws its own priorities.

\* Treap::new() in both runs
TreapInit ==
    /\ treap = Treap_new
    /\ treap2 = Treap_new
    /\ tr_ref = {}
    /\ tr_last = NoTreapCall
    /\ tr_panicked = FALSE

InitTreap == AvlInit /\ HeapIdle /\ VecIdle /\ TreapInit /\ BstIdle

\* The clients are between two calls.
TreapReady == ~tr_panicked /\ tr_last.op = "none"

\* the trees and the panic flag after a call that gave r in the first run
\* and r2 in the second
TreapReturned(r, r2) ==
    /\ treap' = r.anchor
    /\ treap2' = r2.anchor
    /\ tr_panicked' = (r.panic \/ r2.panic)

TreapInsert(key, priority, priority2) ==
    /\ TreapReady
    /\ TreapReturned(Treap_insert(treap, key, priority),
                     Treap_insert(treap2, key, priority2))
    /\ tr_ref' = tr_ref \cup {key}
    /\ tr_last' = [op |-> "insert", key |-> key, ret |-> None, ret2 |-> None]
    /\ UNCHANGED <<avl_vars, heap_vars, vec_vars, bst_vars>>

TreapRemove(key) ==
    /\ TreapReady
    /\ TreapReturned(Treap_remove(treap, key), Treap_remove(treap2, key))
    /\ tr_ref' = tr_ref \ {key}
    /\ tr_last' = [op |-> "remove", key |-> key, ret |-> None, ret2 |-> None]
    /\ UNCHANGED <<avl_vars, heap_vars, vec_vars, bst_vars>>

TreapContains(key) ==
    /\ TreapReady
    /\ tr_last' = [op |-> "contains", key |-> key,
                   ret |-> Some(Treap_contains(treap, key)),
                   ret2 |-> Some(Treap_contains(treap2, key))]
    /\ UNCHANGED <<treap, treap2, tr_ref, tr_panicked, avl_vars, heap_vars,
                   vec_vars, bst_vars>>

\* tree.iter().copied().collect()
TreapIter ==
    /\ TreapReady
    /\ tr_last' = [op |-> "iter", key |-> 0,
                   ret |-> Treap_collect(Treap_iter(treap)),
                   ret2 |-> Treap_collect(Treap_iter(treap2))]
    /\ UNCHANGED <<treap, treap2, tr_ref, tr_panicked, avl_vars, heap_vars,
                   vec_vars, bst_vars>>

\* the call has returned and the clients go on
TreapReturn ==
    /\ ~tr_panicked /\ tr_last.op # "none"
    /\ tr_last' = NoTreapCall
    /\ UNCHANGED <<treap, treap2, tr_ref, tr_panicked, avl_vars, heap_vars,
                   vec_vars, bst_vars>>

NextTreap ==
    \/ \E key \in TreapKeys, priority \in TreapPriorities,
          priority2 \in TreapPriorities : TreapInsert(key, priority, priority2)
    \/ \E key \in TreapKeys : TreapRemove(key)
    \/ \E key \in TreapKeys : TreapContains(key)
    \/ TreapIter
    \/ TreapReturn

SpecTreap == InitTreap /\ [][NextTreap]_vars

----------------------------------------------------------------------------
\* every node's priority is at most its parent's
HeapOrder(anchor) ==
    \A node \in Nodes(anchor) : \A i \in 1..2 :
        (node.children[i] # None) => (node.children[i][1].priority <= node.priority)

\* C15: after every Treap::insert and Treap::remove, whatever the
\* priorities drawn, equal ones included: no assertion of check or of
\* rotate has failed, the keys are in strict BST order and every node's
\* priority is at most its parent's.
C15_TreapCheck ==
    /\ ~tr_panicked
    /\ BstOrdering(treap) /\ NodeCount(treap) = Cardinality(KeysOf(treap))
    /\ HeapOrder(treap)
    /\ BstOrdering(treap2) /\ NodeCount(treap2) = Cardinality(KeysOf(treap2))
    /\ HeapOrder(treap2)

\* a remove of a key that lay between the keys now at the root and in its
\* left child has left a root with two children, one of them with the
\* root's priority and the other with a lower one
C15_Witness ==
    /\ tr_last.op = "remove"
    /\ treap # None
    /\ treap[1].children[1] # None /\ treap[1].children[2] # None
    /\ \E i \in 1..2 : treap[1].children[i][1].priority = treap[1].priority
    /\ \E i \in 1..2 : treap[1].children[i][1].priority < treap[1].priority
    /\ treap[1].children[1][1].key < tr_last.key /\ tr_last.key < treap[1].key
    /\ treap[1].children[1] # None /\ treap[1].children[2] # None
    /\ \E i \in 1..2 : treap[1].children[i][1].priority = treap[1].priority

\* C16: the two runs, which made the same calls and drew their priorities
\* independently, give the same contains answers and the same iter()
\* sequence: the answers and the sorted sequence of the reference set.
C16_PriorityIndependent ==
    /\ Treap_collect(Treap_iter(treap)) = Treap_collect(Treap_iter(treap2))
    /\ Treap_collect(Treap_iter(treap)) = SortedSeq(tr_ref)
    /\ \A key \in TreapKeys :
          /\ Treap_contains(treap, key) = Treap_contains(treap2, key)
          /\ Treap_contains(treap, key) = (key \in tr_ref)
    /\ (tr_last.op = "contains") =>
          /\ tr_last.ret = tr_last.ret2
          /\ tr_last.ret = Some(tr_last.key \in tr_ref)
    /\ (tr_last.op = "iter") =>
          /\ tr_last.ret = tr_last.ret2
          /\ tr_last.ret = SortedSeq(tr_ref)

\* iter() has returned four keys in both runs, whose trees differ in their
\* priorities and in their shapes
C16_Witness ==
    /\ tr_last.op = "iter"
    /\ Len(tr_last.ret) = 4
    /\ Height(treap) # Height(treap2)
    /\ treap[1].key # treap2[1].key
    /\ treap[1].priority # treap2[1].priority

----------------------------------------------------------------------------
\* bst.rs: the binary search tree without balancing

MaxBstKey == 6
BstKeys == 1..MaxBstKey

BstNode_new(key) == [key |-> key, children |-> <<None, None>>]

Bst_new == None

\* Bst::check::aux: no assertion fails
RECURSIVE Bst_check_aux(_, _, _)
Bst_check_aux(anchor, min, max) ==
    IF anchor = None THEN TRUE
    ELSE LET node == anchor[1] IN
         /\ (min # None) => (node.key > min[1])
         /\ (max # None) => (node.key < max[1])
         /\ Bst_check_aux(node.children[1], min, Some(node.key))
         /\ Bst_check_aux(node.children[2], Some(node.key), max)

Bst_check(self) == Bst_check_aux(self, None, None)

\* Bst::insert::aux: the slot afterwards
RECURSIVE Bst_insert_aux(_, _)
Bst_insert_aux(anchor, key) ==
    IF anchor = None THEN Some(BstNode_new(key))
    ELSE IF key < anchor[1].key
    THEN Some([anchor[1] EXCEPT !.children[1] = Bst_insert_aux(anchor[1].children[1], key)])
    ELSE IF key > anchor[1].key
    THEN Some([anchor[1] EXCEPT !.children[2] = Bst_insert_aux(anchor[1].children[2], key)])
    ELSE anchor

\* Bst::insert, with the check() that ends it
Bst_insert(self, key) ==
    Bind(Bst_insert_aux(self, key), LAMBDA anchor :
        [anchor |-> anchor, panic |-> ~Bst_check(anchor)])

\* leftmost that leaves the right subtree of the node it takes out behind
Bst_leftmost_drop_right(node) ==
    [ret |-> [node.children[1][1] EXCEPT !.children[2] = None],
     node |-> [node EXCEPT !.children[1] = None]]

\* Bst::remove::leftmost: the node taken out (ret) and node afterwards;
\* node has a left child
RECURSIVE Bst_leftmost(_)
Bst_leftmost(node) ==
    IF node.children[1][1].children[1] # None
    THEN Bind(Bst_leftmost(node.children[1][1]), LAMBDA r :
             [ret |-> r.ret, node |-> [node EXCEPT !.children[1] = Some(r.node)]])
    ELSE [ret |-> [node.children[1][1] EXCEPT !.children[2] = None],
          node |-> [node EXCEPT !.children[1] = node.children[1][1].children[2]]]

\* Bst::remove::aux: the slot afterwards
RECURSIVE Bst_remove_aux(_, _)
Bst_remove_aux(anchor, key) ==
    IF anchor = None THEN anchor
    ELSE LET node == anchor[1] IN
    IF key < node.key
    THEN Some([node EXCEPT !.children[1] = Bst_remove_aux(node.children[1], key)])
    ELSE IF key > node.key
    THEN Some([node EXCEPT !.children[2] = Bst_remove_aux(node.children[2], key)])
    ELSE IF node.children[1] = None /\ node.children[2] = None THEN None
    ELSE IF node.children[2] = None THEN node.children[1]
    ELSE IF node.children[1] = None THEN node.children[2]
    ELSE IF node.children[2][1].children[1] = None
    THEN Some([node.children[2][1] EXCEPT !.children[1] = node.children[1]])
    ELSE Bind(Bst_leftmost(node.children[2][1]), LAMBDA l :
             Some([l.ret EXCEPT !.children = <<node.children[1], Some(l.node)>>]))

\* Bst::remove, with the check() that ends it
Bst_remove(self, key) ==
    Bind(Bst_remove_aux(self, key), LAMBDA anchor :
        [anchor |-> anchor, panic |-> ~Bst_check(anchor)])

\* IterRef::new(&self.root): the stack holds pairs (state, anchor)
Bst_iter(self) == << <<"Unexplored", self>> >>

\* IterRef::next: the stack afterwards and the returned item
RECURSIVE Bst_IterRef_next(_)
Bst_IterRef_next(stack) ==
    IF stack = <<>> THEN [stack |-> stack, item |-> None]
    ELSE LET state == stack[Len(stack)][1]
             anchor == stack[Len(stack)][2]
             rest == SubSeq(stack, 1, Len(stack) - 1)
         IN IF anchor = None THEN Bst_IterRef_next(rest)
            ELSE IF state = "Unexplored"
            THEN Bst_IterRef_next(rest \o << <<"YieldedLeft", anchor>>,
                                             <<"Unexplored", anchor[1].children[1]>> >>)
            ELSE [stack |-> Append(rest, <<"Unexplored", anchor[1].children[2]>>),
                  item |-> Some(anchor[1].key)]

\* Iter::new(tree): the stack holds the anchors the iterator owns
Bst_into_iter(self) == << self >>

\* Iter::next: the stack afterwards and the returned item
RECURSIVE Bst_Iter_next(_)
Bst_Iter_next(stack) ==
    IF stack = <<>> THEN [stack |-> stack, item |-> None]
    ELSE LET anchor == stack[Len(stack)]
             rest == SubSeq(stack, 1, Len(stack) - 1)
         IN IF anchor = None THEN Bst_Iter_next(rest)
            ELSE IF anchor[1].children[1] # None
            THEN Bst_Iter_next(rest \o << Some([anchor[1] EXCEPT !.children[1] = None]),
                                          anchor[1].children[1] >>)
            ELSE [stack |-> rest \o (IF anchor[1].children[2] # None
                                     THEN << anchor[1].children[2] >> ELSE <<>>),
                  item |-> Some(anchor[1].key)]

\* the items next() returns until its first None, for a stepping operator
\* next of Bst or of Avl
RECURSIVE Drain(_, _)
Drain(next(_), stack) ==
    Bind(next(stack), LAMBDA r :
        IF r.item = None THEN <<>> ELSE <<r.item[1]>> \o Drain(next, r.stack))

----------------------------------------------------------------------------
\* SpecBst: a client that makes the same calls on a Bst and on an Avl

\* Bst::new() and Avl::new()
BstInit ==
    /\ bst = Bst_new
    /\ bst_last = NoBstCall
    /\ bst_panicked = FALSE

InitBst == AvlInit /\ HeapIdle /\ VecIdle /\ TreapIdle /\ BstInit

\* The client is between two calls and still owns the trees.
BstReady == ~bst_panicked /\ ~panicked /\ bst_last.op = "none"

\* both trees and the panic flags after a call that gave r on the Bst and
\* a on the Avl
BstReturned(r, a) ==
    /\ bst' = r.anchor
    /\ bst_panicked' = r.panic
    /\ root' = a.root
    /\ panicked' = a.panic

BstInsert(key) ==
    /\ BstReady
    /\ BstReturned(Bst_insert(bst, key), insert(root, key))
    /\ ref' = ref \cup {key}
    /\ bst_last' = [op |-> "insert", key |-> key, ret |-> None, avl |-> None]
    /\ UNCHANGED <<last, trace, calls, mode, it_stack, it_rets, ci_stack, ci_rets,
                   consumed, heap_vars, vec_vars, treap_vars>>

BstRemove(key) ==
    /\ BstReady
    /\ BstReturned(Bst_remove(bst, key), remove(root, key))
    /\ ref' = ref \ {key}
    /\ bst_last' = [op |-> "remove", key |-> key, ret |-> None, avl |-> None]
    /\ UNCHANGED <<last, trace, calls, mode, it_stack, it_rets, ci_stack, ci_rets,
                   consumed, heap_vars, vec_vars, treap_vars>>

\* t.iter().copied().collect(), and the same on the Avl
BstIter ==
    /\ BstReady
    /\ bst_last' = [op |-> "iter", key |-> 0,
                    ret |-> Drain(Bst_IterRef_next, Bst_iter(bst)),
                    avl |-> Drain(IterRef_next, iter(root))]
    /\ UNCHANGED <<bst, bst_panicked, avl_vars, heap_vars, vec_vars, treap_vars>>

\* for &x in &t, which steps <&Bst as IntoIterator>::into_iter(), and the
\* same on the Avl
BstForRef ==
    /\ BstReady
    /\ bst_last' = [op |-> "for_ref", key |-> 0,
                    ret |-> Drain(Bst_IterRef_next, Bst_iter(bst)),
                    avl |-> Drain(IterRef_next, iter(root))]
    /\ UNCHANGED <<bst, bst_panicked, avl_vars, heap_vars, vec_vars, treap_vars>>

\* for x in t, which consumes the tree, and the same on the Avl; the client
\* makes no call after it
BstForOwned ==
    /\ BstReady
    /\ bst_last' = [op |-> "for_owned", key |-> 0,
                    ret |-> Drain(Bst_Iter_next, Bst_into_iter(bst)),
                    avl |-> Drain(Iter_next, into_iter(root))]
    /\ UNCHANGED <<bst, bst_panicked, avl_vars, heap_vars, vec_vars, treap_vars>>

\* the call has returned and the client goes on
BstReturn ==
    /\ ~bst_panicked /\ ~panicked
    /\ bst_last.op \notin {"none", "for_owned"}
    /\ bst_last' = NoBstCall
    /\ UNCHANGED <<bst, bst_panicked, avl_vars, heap_vars, vec_vars, treap_vars>>

NextBst ==
    \/ \E key \in BstKeys : BstInsert(key)
    \/ \E key \in BstKeys : BstRemove(key)
    \/ BstIter
    \/ BstForRef
    \/ BstForOwned
    \/ BstReturn

SpecBst == InitBst /\ [][NextBst]_vars

----------------------------------------------------------------------------
\* C17: for any sequence of insert and remove calls the Bst keeps strict
\* BST ordering and check has not failed; iter(), the by-reference
\* iteration and the consuming iteration each yield the reference set in
\* increasing order, which is what the Avl yields for the same calls.
C17_BstSameAsAvl ==
    /\ ~bst_panicked
    /\ BstOrdering(bst) /\ NodeCount(bst) = Cardinality(KeysOf(bst))
    /\ Drain(Bst_IterRef_next, Bst_iter(bst)) = SortedSeq(ref)
    /\ Drain(Bst_Iter_next, Bst_into_iter(bst)) = SortedSeq(ref)
    /\ Drain(Bst_IterRef_next, Bst_iter(bst)) = Drain(IterRef_next, iter(root))
    /\ Drain(Bst_Iter_next, Bst_into_iter(bst)) = Drain(Iter_next, into_iter(root))
    /\ (bst_last.op \in {"iter", "for_ref", "for_owned"}) =>
          /\ bst_last.ret = SortedSeq(ref)
          /\ bst_last.ret = bst_last.avl

\* the consuming iteration has yielded four keys from a Bst of height 4,
\* while the Avl that got the same calls has height 3
C17_Witness ==
    /\ bst_last.op = "for_owned"
    /\ Len(bst_last.ret) = 4
    /\ bst # root
    /\ Height(bst) = 4
    /\ Height(root) = 3

----------------------------------------------------------------------------
\* The calls of rotate and rebalance that the last insert or remove on the
\* Avl made, as the variable calls logs them

\* the entries of calls for the function fn
CallsOf(fn) == {i \in 1..Len(calls) : calls[i].fn = fn}

\* the keys of a subtree from left to right
RECURSIVE InOrder(_)
InOrder(anchor) ==
    IF anchor = None THEN <<>>
    ELSE InOrder(anchor[1].children[1]) \o <<anchor[1].key>>
         \o InOrder(anchor[1].children[2])

\* the key and the longer_side of every node of a subtree
Fields(anchor) == {<<node.key, node.longer_side>> : node \in Nodes(anchor)}

\* The statement of section 4.1 as it is worded: a call rotate(slot, dir) on
\* a slot whose root has a child on side dir promotes that child; its
\* opposite-side subtree becomes the old root's dir-side subtree and the old
\* root becomes its opposite-side child.
C18_PromotesDirSide ==
    \A i \in CallsOf("rotate") :
        LET old == calls[i].before[1]
            d == Idx(calls[i].dir)
            nd == Idx(Not(calls[i].dir))
        IN (old.children[d] # None) =>
              /\ calls[i].after[1].key = old.children[d][1].key
              /\ calls[i].after[1].children[nd] # None
              /\ calls[i].after[1].children[nd][1].key = old.key
              /\ calls[i].after[1].children[nd][1].children[d]
                     = old.children[d][1].children[nd]

\* C18: a call rotate(slot, dir) on a slot whose root has a child on the
\* side opposite to dir promotes that child to be the root of the slot; the
\* promoted child's dir-side subtree becomes the old root's subtree on the
\* side opposite to dir, the old root becomes the promoted child's dir-side
\* child, and the other two subtrees stay where they were.
C18_PromotesOppositeSide ==
    \A i \in CallsOf("rotate") :
        LET old == calls[i].before[1]
            d == Idx(calls[i].dir)
            nd == Idx(Not(calls[i].dir))
        IN (old.children[nd] # None) =>
              /\ ~calls[i].panic
              /\ calls[i].after[1].key = old.children[nd][1].key
              /\ calls[i].after[1].children[nd] = old.children[nd][1].children[nd]
              /\ calls[i].after[1].children[d] # None
              /\ calls[i].after[1].children[d][1].key = old.key
              /\ calls[i].after[1].children[d][1].children[nd]
                     = old.children[nd][1].children[d]
              /\ calls[i].after[1].children[d][1].children[d] = old.children[d]

\* a rotate was called on a slot whose root had both children, and the
\* promoted child had a subtree to hand over to the old root
C18_Witness ==
    \E i \in CallsOf("rotate") :
        LET old == calls[i].before[1]
            d == Idx(calls[i].dir)
            nd == Idx(Not(calls[i].dir))
        IN /\ old.children[d] # None
           /\ old.children[nd] # None
           /\ old.children[nd][1].children[d] # None
           /\ calls[i].after # calls[i].before

\* C19: every call of rotate leaves the in-order sequence of the keys of the
\* subtree in the slot as it was, changes no node's key and no node's
\* longer_side, and keeps the same nodes in the subtree; the first rotate
\* of a double rotation, whose slot is the dir-side child of the node that
\* rebalance works on, leaves that node's key and its other subtree as they
\* were.
C19_RotateFrame ==
    /\ \A i \in CallsOf("rotate") :
          /\ ~calls[i].panic
          /\ InOrder(calls[i].after) = InOrder(calls[i].before)
          /\ Fields(calls[i].after) = Fields(calls[i].before)
          /\ NodeCount(calls[i].after) = NodeCount(calls[i].before)
    /\ \A j \in CallsOf("rebalance") :
          (calls[j].branch = "child_opposite") =>
              LET node == calls[j].before[1]
                  d == Idx(calls[j].dir)
                  nd == Idx(Not(calls[j].dir))
                  outer == calls[j - 1].before[1]
              IN /\ calls[j - 2].fn = "rotate" /\ calls[j - 1].fn = "rotate"
                 /\ InOrder(calls[j - 2].before) = InOrder(node.children[d])
                 /\ outer.children[d] = calls[j - 2].after
                 /\ outer.key = node.key
                 /\ outer.children[nd] = node.children[nd]

\* a remove made a double rotation: two rotate calls, each on a subtree of
\* at least three nodes which it changed
C19_Witness ==
    /\ last.op = "remove"
    /\ \E j \in CallsOf("rebalance") :
          /\ calls[j].branch = "child_opposite"
          /\ \A i \in {j - 2, j - 1} :
                /\ calls[i].fn = "rotate"
                /\ NodeCount(calls[i].before) >= 3
                /\ calls[i].after # calls[i].before

\* the subtree of anchor whose root holds key
RECURSIVE SubtreeAt(_, _)
SubtreeAt(anchor, key) ==
    IF anchor = None THEN None
    ELSE IF key = anchor[1].key THEN anchor
    ELSE IF key < anchor[1].key THEN SubtreeAt(anchor[1].children[1], key)
    ELSE SubtreeAt(anchor[1].children[2], key)

\* What the slot of a logged call held before the insert or remove of key
\* changed the tree old. The slot holds the node it held then, but for the
\* slot from which remove has taken a node with two children, which holds
\* that node's successor.
SlotBefore(old, key, slot) ==
    LET found == SubtreeAt(old, key)
    IN IF /\ found # None
          /\ found[1].children[1] # None /\ found[1].children[2] # None
          /\ slot[1].key = Head(InOrder(found[1].children[2]))
       THEN found
       ELSE SubtreeAt(old, slot[1].key)

\* C20: in every call that insert and remove make, rebalance returns true
\* exactly when the height of the subtree in the slot differs from its
\* height before the insertion or deletion (one more for an insertion, one
\* less for a deletion), and false exactly when it is the same height.
C20_RebalanceReturn ==
    [][\A i \in 1..Len(calls') :
          (calls'[i].fn = "rebalance") =>
              LET before == Height(SlotBefore(root, last'.key, calls'[i].before))
                  after == Height(calls'[i].after)
              IN IF calls'[i].ret
                 THEN after = before + (IF last'.op = "insert" THEN 1 ELSE -1)
                 ELSE after = before]_vars

----------------------------------------------------------------------------
\* The branches of rebalance

\* the node's stored longer_side is what the heights of its subtrees give
StoredIsActual(node) ==
    LET diff == Height(node.children[2]) - Height(node.children[1])
    IN node.longer_side = (CASE diff = 1 -> "Right"
                             [] diff = -1 -> "Left"
                             [] diff = 0 -> "None"
                             [] OTHER -> "off")

\* C21: a call rebalance(slot, dir) on a node whose longer_side is not dir
\* makes no rotate call and changes nothing but that node's longer_side:
\* from None it becomes dir and the call returns true, from the side
\* opposite to dir it becomes None and the call returns false.
C21_NoRotation ==
    \A j \in CallsOf("rebalance") :
        LET node == calls[j].before[1]
        IN (node.longer_side # calls[j].dir) =>
              /\ ~calls[j].panic
              /\ (j > 1) => (calls[j - 1].fn # "rotate")
              /\ calls[j].after =
                     Some([node EXCEPT !.longer_side =
                              IF node.longer_side = "None" THEN calls[j].dir ELSE "None"])
              /\ calls[j].ret = (node.longer_side = "None")

\* one remove made both kinds of call: on a node leaning away from dir,
\* which returned false, and above it on a balanced node with two
\* children, which returned true
C21_Witness ==
    /\ last.op = "remove"
    /\ \E i, j \in CallsOf("rebalance") :
          /\ i < j
          /\ calls[i].before[1].longer_side = Not(calls[i].dir)
          /\ ~calls[i].ret
          /\ calls[j].before[1].longer_side = "None"
          /\ calls[j].before[1].children[1] # None
          /\ calls[j].before[1].children[2] # None
          /\ calls[j].ret

\* C22: during an insert, whenever rebalance finds the node already
\* unbalanced toward dir, the dir-side child's longer_side is not None, so
\* the branch of the balanced child is not taken.
C22_InsertChildLeans ==
    (last.op = "insert") =>
        \A j \in CallsOf("rebalance") :
            LET node == calls[j].before[1]
            IN (node.longer_side = calls[j].dir) =>
                  /\ node.children[Idx(calls[j].dir)] # None
                  /\ node.children[Idx(calls[j].dir)][1].longer_side # "None"
                  /\ calls[j].branch # "child_balanced"

\* an insert found a node unbalanced toward dir, with a dir-side child
\* leaning the same way, in a subtree of at least five nodes
C22_Witness ==
    /\ last.op = "insert"
    /\ \E j \in CallsOf("rebalance") :
          /\ calls[j].before[1].longer_side = calls[j].dir
          /\ calls[j].branch = "child_same"
          /\ NodeCount(calls[j].before) >= 5

\* C23: during an insert, whenever rebalance takes the double-rotation
\* branch (child unbalanced opposite to dir), the grandchild's longer_side
\* is not None.
C23_InsertGrandchildLeans ==
    (last.op = "insert") =>
        \A j \in CallsOf("rebalance") :
            LET node == calls[j].before[1]
                d == Idx(calls[j].dir)
                nd == Idx(Not(calls[j].dir))
            IN (/\ node.longer_side = calls[j].dir
                /\ node.children[d] # None
                /\ node.children[d][1].longer_side = Not(calls[j].dir)) =>
                  /\ node.children[d][1].children[nd] # None
                  /\ node.children[d][1].children[nd][1].longer_side # "None"

\* C24: when rebalance(slot, dir) finds the node unbalanced toward dir and
\* its dir-side child unbalanced the opposite way, after the call the
\* former grandchild is the root of the slot with longer_side None, the
\* former node and the former child are its children, the longer_side each
\* of them stores is what the heights of its subtrees give, the subtree is
\* one level shorter than before the call, and the call returns false.
C24_DoubleRotation ==
    \A j \in CallsOf("rebalance") :
        LET node == calls[j].before[1]
            d == Idx(calls[j].dir)
            nd == Idx(Not(calls[j].dir))
            new_root == calls[j].after[1]
        IN (/\ node.longer_side = calls[j].dir
            /\ node.children[d] # None
            /\ node.children[d][1].longer_side = Not(calls[j].dir)) =>
              /\ ~calls[j].panic
              /\ node.children[d][1].children[nd] # None
              /\ new_root.key = node.children[d][1].children[nd][1].key
              /\ new_root.longer_side = "None"
              /\ new_root.children[nd] # None /\ new_root.children[d] # None
              /\ new_root.children[nd][1].key = node.key
              /\ new_root.children[d][1].key = node.children[d][1].key
              /\ StoredIsActual(new_root)
              /\ StoredIsActual(new_root.children[nd][1])
              /\ StoredIsActual(new_root.children[d][1])
              /\ Height(calls[j].after) = Height(calls[j].before) - 1
              /\ ~calls[j].ret

\* a remove made a double rotation around a balanced grandchild
C24_Witness ==
    /\ last.op = "remove"
    /\ \E j \in CallsOf("rebalance") :
          /\ calls[j].branch = "child_opposite"
          /\ LET node == calls[j].before[1]
                 d == Idx(calls[j].dir)
                 nd == Idx(Not(calls[j].dir))
             IN node.children[d][1].children[nd][1].longer_side = "None"

----------------------------------------------------------------------------
\* The return values of insert's aux (avl.rs 210-228)

\* The last call of fn logged before entry j, 0 if there is none
CallBefore(fn, j) ==
    LET earlier == {i \in 1..(j - 1) : calls[i].fn = fn}
    IN IF earlier = {} THEN 0
       ELSE CHOOSE i \in earlier : \A k \in earlier : k <= i

\* How much taller the slot of entry i is after the call than before it
Growth(i) == Height(calls[i].after) - Height(calls[i].before)

\* C25: during an insert, every call of aux leaves its slot as tall as it was
\* or one taller, and returns true exactly when it is one taller; rebalance
\* is called on a node only with the side the key went to, right after the
\* aux call on that child returned true, having made that child one taller.
C25_InsertAuxReturn ==
    (last.op = "insert") =>
        /\ \A i \in CallsOf("insert_aux") :
              /\ ~calls[i].panic
              /\ Growth(i) \in {0, 1}
              /\ calls[i].ret = (Growth(i) = 1)
        /\ \A j \in CallsOf("rebalance") :
              LET i    == CallBefore("insert_aux", j)
                  node == calls[j].before[1]
              IN /\ i > 0
                 /\ \A k \in (i + 1)..(j - 1) : calls[k].fn = "rotate"
                 /\ calls[j].dir = AvlNode_dir(node, last.key)
                 /\ node.children[Idx(calls[j].dir)] = calls[i].after
                 /\ calls[i].ret
                 /\ Growth(i) = 1

\* an insert whose new leaf made two levels taller, was absorbed by a
\* rotation at the third, and left the levels above as tall as they were
C25_Witness ==
    /\ last.op = "insert"
    /\ \E i, j, k \in CallsOf("insert_aux") :
          /\ i < j /\ j < k
          /\ calls[i].before # None /\ calls[i].ret
          /\ calls[j].before # calls[j].after /\ ~calls[j].ret
          /\ calls[j - 1].fn = "rebalance" /\ calls[j - 2].fn = "rotate"
          /\ ~calls[k].ret

----------------------------------------------------------------------------
\* The return values of remove's aux (avl.rs 262-316)

\* The rebalance calls a remove made on the nodes above the one that holds
\* the key: the nodes aux was called on, the holder of the key left out
AncestorRebalances ==
    {j \in CallsOf("rebalance") :
        /\ calls[j].before # None
        /\ calls[j].before[1].key # last.key
        /\ \E k \in CallsOf("remove_aux") :
              /\ calls[k].before # None
              /\ calls[k].before[1].key = calls[j].before[1].key}

\* C26: during a remove, every call of aux leaves its slot as tall as it
\* was or one lower, and returns true exactly when it is one lower;
\* rebalance is called on a node above the removed one only with the side
\* opposite to the one the descent took, right after the aux call on the
\* child of the descent side returned true, having made it one lower.
C26_RemoveAuxReturn ==
    (last.op = "remove") =>
        /\ \A i \in CallsOf("remove_aux") :
              /\ ~calls[i].panic
              /\ Growth(i) \in {0, -1}
              /\ calls[i].ret = (Growth(i) = -1)
        /\ \A j \in AncestorRebalances :
              LET i    == CallBefore("remove_aux", j)
                  node == calls[j].before[1]
                  down == AvlNode_dir(node, last.key)
              IN /\ i > 0
                 /\ \A k \in (i + 1)..(j - 1) : calls[k].fn = "rotate"
                 /\ calls[j].dir = Not(down)
                 /\ node.children[Idx(down)] = calls[i].after
                 /\ calls[i].ret
                 /\ Growth(i) = -1

\* a remove that made the slot of the removed node and the level above it
\* one lower, and rotated at the next level, whose slot stayed as tall as
\* it was
C26_Witness ==
    /\ last.op = "remove"
    /\ \E i, j, k \in CallsOf("remove_aux") :
          /\ i < j /\ j < k
          /\ calls[i].ret
          /\ (j - 1) \in AncestorRebalances /\ calls[j].ret
          /\ (k - 1) \in AncestorRebalances /\ calls[k - 2].fn = "rotate"
          /\ ~calls[k].ret

----------------------------------------------------------------------------
\* The node put in the place of a removed node with two children
\* (avl.rs 281-304, 235-244)

\* The aux calls of a remove on the node that holds the key, when that node
\* has two children
FoundWithTwo ==
    {f \in CallsOf("remove_aux") :
        /\ calls[f].before # None
        /\ calls[f].before[1].key = last.key
        /\ calls[f].before[1].children[1] # None
        /\ calls[f].before[1].children[2] # None}

\* Whether the aux call of entry f ended with rebalance(anchor, Left)
FinalRebalance(f) ==
    /\ f > 1
    /\ calls[f - 1].fn = "rebalance"
    /\ calls[f - 1].dir = "Left"

\* The slot of the aux call of entry f as its final rebalance found it, or
\* as aux left it when it returned without one
SlotBeforeFinal(f) ==
    IF FinalRebalance(f) THEN calls[f - 1].before ELSE calls[f].after

\* C27: when remove finds the key in a node with two children, the slot
\* holds, immediately before its final rebalance, the smallest key of the
\* right subtree with the removed node's longer_side, the removed node's
\* left subtree unchanged as left child and the other keys of the right
\* subtree as right child.
C27_SuccessorSplice ==
    (last.op = "remove") =>
        \A f \in FoundWithTwo :
            LET removed == calls[f].before[1]
                slot    == SlotBeforeFinal(f)
            IN /\ slot # None
               /\ slot[1].key = Head(InOrder(removed.children[2]))
               /\ slot[1].longer_side = removed.longer_side
               /\ slot[1].children[1] = removed.children[1]
               /\ InOrder(slot[1].children[2]) = Tail(InOrder(removed.children[2]))

\* a remove of an unbalanced node with two children, whose successor was
\* at least two levels below it and had a right child, and whose slot got
\* its final rebalance
C27_Witness ==
    /\ last.op = "remove"
    /\ \E f \in FoundWithTwo :
          /\ FinalRebalance(f)
          /\ calls[f].before[1].longer_side # "None"
          /\ \E i \in CallsOf("leftmost") :
                /\ i < f
                /\ NodeCount(calls[i].after) = NodeCount(calls[i].before) - 1
                /\ calls[i].before[1].children[1][1].children[2] # None

----------------------------------------------------------------------------
\* leftmost and leftmost_rebalance (avl.rs 234-261, 289-303)

\* The number of steps to the left from the root of a slot to its leftmost
\* node
RECURSIVE LeftSteps(_)
LeftSteps(anchor) ==
    IF anchor = None \/ anchor[1].children[1] = None THEN 0
    ELSE 1 + LeftSteps(anchor[1].children[1])

\* The slot n steps to the left of a slot
RECURSIVE LeftDescend(_, _)
LeftDescend(anchor, n) ==
    IF n = 0 \/ anchor = None THEN anchor
    ELSE LeftDescend(anchor[1].children[1], n - 1)

\* Every node of the slot is balanced and stores the side that is longer
AllStoredActual(anchor) == \A node \in Nodes(anchor) : StoredIsActual(node)

\* Entry i of the log is a call rebalance(slot, Right) made right after the
\* leftmost_rebalance call of entry p, on the slot whose left child that
\* call left behind
RebalancedAfter(p, i) ==
    /\ i > p
    /\ calls[i].fn = "rebalance"
    /\ calls[i].dir = "Right"
    /\ \A k \in (p + 1)..(i - 1) : calls[k].fn = "rotate"
    /\ calls[i].before # None
    /\ calls[i].before[1].children[1] = calls[p].after

\* C28: in a remove that calls leftmost on the right subtree, the depth it
\* returns is the number of steps to the left from the subtree's root to
\* the parent of its smallest node; leftmost_rebalance is called once per
\* level from that parent up to the root; each call leaves a slot whose
\* nodes are all balanced with the right longer_side, as tall as before the
\* detachment or one lower, and returns true exactly when it is one lower;
\* a level calls rebalance exactly when the level below returned true, and
\* returns false without calling it otherwise.
C28_LeftmostWalk ==
    (last.op = "remove") =>
        \A m \in CallsOf("leftmost") :
            LET right == calls[m].before
                D     == calls[m].depth
            IN /\ ~calls[m].panic
               /\ D = LeftSteps(right) - 1
               /\ \A k \in 0..D :
                     Cardinality({i \in CallsOf("leftmost_rebalance") :
                                     calls[i].depth = k}) = 1
               /\ \A i \in CallsOf("leftmost_rebalance") :
                     LET k   == calls[i].depth
                         pre == LeftDescend(right, D - k)
                         p   == CallBefore("leftmost_rebalance", i)
                     IN /\ k \in 0..D
                        /\ ~calls[i].panic
                        /\ calls[i].before = LeftDescend(calls[m].after, D - k)
                        /\ AllStoredActual(calls[i].after)
                        /\ Height(calls[i].after) \in {Height(pre), Height(pre) - 1}
                        /\ calls[i].ret = (Height(calls[i].after) = Height(pre) - 1)
                        /\ (k = 0) =>
                              /\ calls[i - 1].fn = "rebalance"
                              /\ calls[i - 1].dir = "Right"
                              /\ calls[i - 1].before = calls[i].before
                        /\ (k > 0) =>
                              /\ p > 0
                              /\ calls[p].depth = k - 1
                              /\ IF calls[p].ret
                                 THEN RebalancedAfter(p, i - 1)
                                 ELSE i = p + 1 /\ ~calls[i].ret

\* a remove whose successor was three levels below the removed node: the
\* successor's parent was rebalanced and reported no decrease, and the
\* root of the right subtree was left alone
C28_Witness ==
    /\ last.op = "remove"
    /\ \E m \in CallsOf("leftmost") :
          /\ calls[m].depth = 1
          /\ calls[m + 1].fn = "rebalance"
          /\ calls[m + 2].fn = "leftmost_rebalance"
          /\ ~calls[m + 2].ret
          /\ calls[m + 3].fn = "leftmost_rebalance"
          /\ calls[m + 3].depth = 1
          /\ ~calls[m + 3].ret

----------------------------------------------------------------------------
\* ImplTreap::check after insert and remove (impl_treap.rs 34-56, 73-118)

\* C29: after every insert(index, value) with index <= size and every
\* remove(index) with index < size, whatever the priorities drawn, the call
\* has not panicked (in a debug build, no count went below zero), check's
\* assertions pass and size is the number of nodes.
C29_CheckAfterInsert ==
    (vec_last.op \in {"insert", "remove"}) =>
        /\ ~vec_panicked
        /\ ImplTreap_check(itreap)
        /\ itreap.size = NodeCount(itreap.root)

----------------------------------------------------------------------------
\* binary_path_to and the paths of Heap (recursive_heap.rs 53-67, 91-123;
\* heap.rs 70-119)

\* The n lowest bits of path as digits, the least significant one first
RECURSIVE PathDigits(_, _)
PathDigits(path, n) ==
    IF n = 0 THEN <<>>
    ELSE <<IF path % 2 = 0 THEN "0" ELSE "1">> \o PathDigits(path \div 2, n - 1)

\* The position, in level order from 0, reached from position pos by
\* following the digits: "0" to the left child, "1" to the right child
RECURSIVE DigitWalk(_, _)
DigitWalk(pos, digits) ==
    IF digits = <<>> THEN pos
    ELSE DigitWalk(2 * pos + (IF Head(digits) = "0" THEN 1 ELSE 2), Tail(digits))

\* What binary_path_to returned holds the digits of index + 1 below its
\* leading 1, the highest of them in the lowest bit, and nothing above
\* them; they lead from the root to position index, and so do the digits
\* Heap takes from the binary string of its size index + 1.
PathOk ==
    (bp_ret # None) =>
        LET n    == bit_length(bp_index + 1) - 1
            path == bp_ret[1]
        IN /\ path < 2^n
           /\ PathDigits(path, n) = Tail(format_b(bp_index + 1))
           /\ DigitWalk(0, PathDigits(path, n)) = bp_index
           /\ DigitWalk(0, Tail(format_b(bp_index + 1))) = bp_index

\* The step is a call on one of the heaps that leaves the tree, the size,
\* the panic and the returned key that the same call on the other heap
\* would leave from the same tree.
SameStep ==
    /\ (hp_kind = "Heap" /\ hp_last'.op = "insert") =>
          LET r == RecursiveHeap_push(heap, hp_last'.key)
          IN heap' = r.heap /\ hp_panicked' = r.panic
    /\ (hp_kind = "RecursiveHeap" /\ hp_last'.op = "push") =>
          LET r == Heap_insert(heap, hp_last'.key)
          IN heap' = r.heap /\ hp_panicked' = r.panic
    /\ (hp_kind = "Heap" /\ hp_last'.op = "pop") =>
          LET r == RecursiveHeap_pop(heap)
          IN heap' = r.heap /\ hp_panicked' = r.panic /\ hp_last'.ret = r.ret
    /\ (hp_kind = "RecursiveHeap" /\ hp_last'.op = "pop") =>
          LET r == Heap_pop(heap)
          IN heap' = r.heap /\ hp_panicked' = r.panic /\ hp_last'.ret = r.ret

\* C30: binary_path_to(index) returns the bits of index + 1 below its
\* leading 1, reversed so that the lowest bit is the first step; the steps
\* lead to position index in level order, where Heap's binary string of
\* its size leads too; every push and pop of a RecursiveHeap leaves the
\* tree the same call leaves in a Heap, and the other way round.
C30_SamePathSameTree == [][PathOk' /\ SameStep]_vars

\* a RecursiveHeap that was pushed a fifth key: the path to position 4 is
\* left then right, which is not its own reverse
C30_Witness ==
    /\ hp_kind = "RecursiveHeap"
    /\ hp_last.op = "push"
    /\ ~hp_panicked
    /\ heap.size = 5
    /\ binary_path_to(4) = 2

====
